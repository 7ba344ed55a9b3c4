--------------------------- MODULE PromptContext ---------------------------
(***************************************************************************)
(* From a conversation to the prompt of its next answer. The browser keeps *)
(* the messages and has the older ones summarised (static/modules/chat.js);*)
(* the gateway chooses the model (model_router.py, edge_inference.py),     *)
(* assembles the prompt (deepseek_client.py) and drops what does not fit   *)
(* (context_manager.py, context_engine.py). Messages alternate: the odd    *)
(* ones are the user's. Of a message its place and its weight are kept.    *)
(***************************************************************************)
EXTENDS Integers, Sequences, SequencesExt, FiniteSets, FiniteSetsExt, Lists

CONSTANTS
  TriggerMessages, TriggerSize, \* when the browser compresses
  KeepRecent, MinDelta, MinDeltaSize, FallbackSize, \* and how
  HardLimit,         \* MESSAGE_HARD_LIMIT, and the browser's own limit
  WindowMessages,    \* GATEWAY_CONTEXT_WINDOW_MESSAGES
  MinKeep,           \* CONTEXT_ENGINE_MIN_KEEP_MESSAGES
  Available,         \* available_input_tokens of the models
  Settings,          \* the settings of a turn that are looked at
  MaxMessages, MaxOdd \* bounds: the conversation, and its messages that are not plain

Kinds == {"plain", "file", "picture", "empty"}
Models == {"flash", "pro"}

VARIABLES
  messages,  \* the conversation: what each message is
  covered,   \* contextSummaryMessageCount: how many of them the summary stands for
  request,   \* the first message that is not sent, from the end: all after it are
  stage,     \* idle, typed, prepared, sent
  failed,    \* the last compression failed
  told,      \* the user was told that only recent messages were sent
  body,      \* the last prompt
  before     \* history: the prompt before, if the conversation went on from there

vars == <<messages, covered, request, stage, failed, told, body, before>>

NoBody == [via |-> "none"]
Parts == {"time", "summary", "memory", "search hint", "slides", "web", "continuation"}

TypeOK ==
  /\ messages \in Seq(Kinds) /\ covered \in 0 .. MaxMessages /\ request \in 0 .. MaxMessages
  /\ stage \in {"idle", "typed", "prepared", "sent"} /\ failed \in BOOLEAN /\ told \in BOOLEAN
  /\ body.via \in {"none", "cloud", "edge"}
  /\ body.via # "none" =>
       /\ body.model \in Models \cup {"local"} /\ ToSet(body.dynamic) \subseteq Parts
       /\ body.advice \in {"ok", "trim"} /\ body.untrusted \subseteq 0 .. MaxMessages

Init ==
  /\ messages = <<>> /\ covered = 0 /\ request = 0 /\ stage = "idle"
  /\ failed = FALSE /\ told = FALSE /\ body = NoBody /\ before = NoBody

Least(a, b) == IF a < b THEN a ELSE b
Most(a, b)  == IF a < b THEN b ELSE a

\* What messages weigh: a picture twice, a file four times what plain words do.
Number(S, kind) == Cardinality({i \in S : messages[i] = kind})
WeightOf(S) == Number(S, "plain") + 2 * Number(S, "picture") + 4 * Number(S, "file")

Odd    == {i \in DOMAIN messages : messages[i] # "plain"}
Spoken == {i \in DOMAIN messages : messages[i] # "empty"}
-----------------------------------------------------------------------------
(* The browser.                                                            *)

Say(kind) ==
  /\ stage = "idle" /\ Len(messages) < MaxMessages
  /\ kind \in {"plain", "file", "picture"} /\ (kind # "plain" => Cardinality(Odd) < MaxOdd)
  /\ messages' = Append(messages, kind) /\ stage' = "typed"
  /\ UNCHANGED <<covered, request, failed, told, body, before>>

\* submitMessageEdit and regenerate: the conversation goes on from this message,
\* and its summary is thrown away.
Edit(i) ==
  /\ stage = "idle" /\ i \in DOMAIN messages /\ i % 2 = 1
  /\ messages' = SubSeq(messages, 1, i) /\ stage' = "typed"
  /\ covered' = 0 /\ body' = NoBody /\ before' = NoBody
  /\ UNCHANGED <<request, failed, told>>

Prepared(from) == stage' = "prepared" /\ request' = from

\* Mutant of SmallDelta: the few messages before the recent ones are left out.
SmallDeltaLost(from, end) == end

\* Too little to be worth a compression: it is sent as it is.
SmallDelta(from, end) == from

\* compress_context_payload: the summary now stands for the first end messages.
Compressed(end) ==
  Prepared(end) /\ covered' = end /\ failed' = FALSE /\ told' = FALSE /\ body' = body

\* buildCompressedRequestParts. One step, although it awaits the server: the
\* interface is busy from before it until the answer has ended, and neither
\* opens another conversation nor begins one then. It does let the user delete
\* this one; what comes back then is of no conversation here.
Prepare(works) ==
  /\ stage = "typed"
  /\ LET n     == Len(messages)
         due   == n > TriggerMessages \/ WeightOf(1 .. n) > TriggerSize
         end   == n - Least(KeepRecent, n)
         from  == Least(covered, end)
         small == end - from < MinDelta /\ WeightOf(from + 1 .. end) < MinDeltaSize
     IN  IF ~due \/ from = end \/ small
         THEN /\ Prepared(IF due THEN SmallDelta(from, end) ELSE covered)
              /\ failed' = FALSE /\ told' = FALSE /\ UNCHANGED <<covered, body>>
         ELSE IF works
         THEN Compressed(end)
         ELSE /\ failed' = TRUE /\ covered' = covered
              /\ IF n - from > HardLimit
                 THEN stage' = "sent" /\ request' = request /\ told' = TRUE /\ body' = NoBody
                 ELSE /\ told' = (WeightOf(from + 1 .. n) > FallbackSize)
                      /\ Prepared(IF told' THEN end ELSE from) /\ body' = body
  /\ UNCHANGED <<messages, before>>

\* Another client of the interface sends all it has, and no summary.
Post ==
  /\ stage = "typed" /\ covered = 0 /\ Prepared(0)
  /\ failed' = FALSE /\ told' = FALSE
  /\ UNCHANGED <<messages, covered, body, before>>
-----------------------------------------------------------------------------
(* The gateway: which model answers.                                       *)

Question == Len(messages)
HasPicture == messages[Question] = "picture" \* only the latest message carries its pixels

\* route_request with query_complexity.
AutoModel(s) ==
  IF HasPicture \/ s.complexity = "complex" THEN "pro"
  ELSE IF s.complexity = "simple" \/ s.costly THEN "flash" ELSE "pro"

\* Mutant of CloudModel: the budget has the last word.
CloudModelThrifty(s) ==
  IF s.overBudget THEN "flash"
  ELSE IF HasPicture THEN "pro"
  ELSE IF s.model = "auto" THEN AutoModel(s) ELSE s.model

\* build_deepseek_request: a picture overrides the budget, the budget the rest.
CloudModel(s) ==
  IF HasPicture THEN "pro"
  ELSE IF s.overBudget THEN "flash"
  ELSE IF s.model = "auto" THEN AutoModel(s) ELSE s.model

Searches(s) == s.search # "off"

\* edge_payload_supported, edge_simple_enough.
Supported(s) == s.search # "forced" /\ ~HasPicture
SimpleEnough(s) == s.complexity = "simple"

\* select_edge_route, preflight_chat_payload.
Route(s, cloudUp) ==
  IF s.mode = "cloud" \/ (s.mode = "auto" /\ ~(s.edgeUp /\ Supported(s) /\ SimpleEnough(s)))
  THEN IF cloudUp THEN "cloud" ELSE "refused"
  ELSE IF s.edgeUp THEN "edge" ELSE "refused"
-----------------------------------------------------------------------------
(* The gateway: what it is asked.                                          *)

\* normalize_chat_messages: empty ones are dropped, the rest keeps its order.
Normalized == Among([k \in 1 .. Question - request |-> request + k], Spoken)

\* build_dynamic_turn_context; a forced search put its results there.
Dynamic(s) ==
  <<"time">> \o (IF covered > 0 THEN <<"summary">> ELSE <<>>)
             \o (IF s.memory THEN <<"memory">> ELSE <<>>)
             \o (IF Searches(s) THEN <<"search hint">> ELSE <<>>)
             \o (IF s.slides THEN <<"slides">> ELSE <<>>)
             \o (IF s.search = "forced" THEN <<"web">> ELSE <<>>)
             \o (IF s.continues THEN <<"continuation">> ELSE <<>>)

\* A message as it is sent. with: the context of the turn, if it is part of it.
Sent(i) == [at |-> i, as |-> IF i = Question /\ HasPicture THEN "pixels" ELSE "text", with |-> <<>>]

\* Mutant of Placed: the context of the turn is appended to the question.
PlacedInQuestion(middle, s) ==
  [k \in DOMAIN middle |-> IF k = Len(middle) THEN [Sent(middle[k]) EXCEPT !.with = Dynamic(s)]
                                              ELSE Sent(middle[k])]

\* append_context_to_latest_user: the context of the turn is a message of its
\* own, behind the question.
Placed(middle, s) == [k \in DOMAIN middle |-> Sent(middle[k])]

\* Mutant of Window: the oldest messages are kept.
WindowOldest(middle) == SubSeq(middle, 1, Least(Len(middle), Most(1, WindowMessages - 2)))

\* sliding_window_messages: a system message in front and one behind stay.
Window(middle) ==
  IF Len(middle) + 2 <= WindowMessages THEN middle
  ELSE LET room == Most(1, WindowMessages - 2)
       IN  SubSeq(middle, Most(1, Len(middle) - room + 1), Len(middle))

\* The estimate of a prompt with these messages is within the model's room.
Fits(S, model) == WeightOf(S) + 1 <= Available[model]

\* token_trim: of the ways to drop the oldest, the first that fits or that may
\* not go on.
Trim(middle, model) ==
  LET rest(d) == SubSeq(middle, d + 1, Len(middle))
      enough(d) == Fits(ToSet(rest(d)), model) \/ Len(middle) - d <= Most(1, MinKeep)
  IN  IF Available[model] = 0 THEN middle
      ELSE rest(Min({d \in 0 .. Len(middle) : enough(d)}))

\* manage_request_body: with a summary only.
Managed(middle, model) == IF covered = 0 THEN middle ELSE Trim(Window(middle), model)

\* classify_request_messages on the final prompt: the messages with files, and
\* what a search brought (0).
Untrusted(middle, dynamic) ==
  {i \in ToSet(middle) : messages[i] = "file"} \cup {0 : p \in ToSet(dynamic) \cap {"web"}}

\* plan_token_budget.
Advice(middle, model) == IF Fits(ToSet(middle), model) THEN "ok" ELSE "trim"

CloudBody(s) ==
  LET model  == CloudModel(s)
      whole  == Normalized
      middle == Managed(whole, model)
  IN  [via |-> "cloud", model |-> model, covered |-> covered, cut |-> told,
       middle |-> Placed(middle, s), dynamic |-> Dynamic(s),
       dropped |-> Len(whole) - Len(middle),
       untrusted |-> Untrusted(middle, Dynamic(s)), advice |-> Advice(middle, model)]

\* build_edge_messages: without tools, without a window.
EdgeBody(s) ==
  LET whole   == Normalized
      dynamic == SelectSeq(Dynamic(s), LAMBDA p : p \notin {"search hint", "slides"})
  IN  [via |-> "edge", model |-> "local", covered |-> covered, cut |-> told,
       middle |-> Placed(whole, s), dynamic |-> dynamic, dropped |-> 0,
       untrusted |-> Untrusted(whole, dynamic), advice |-> "ok"]

\* _validate_request_messages.
TooLong == covered = 0 /\ Len(Normalized) > HardLimit

Send(s) ==
  /\ stage = "prepared" /\ stage' = "sent"
  /\ LET route == IF TooLong THEN "refused" ELSE Route(s, s.cloudUp)
     IN  body' = CASE route = "refused" -> NoBody
                   [] route = "cloud" -> CloudBody(s) [] route = "edge" -> EdgeBody(s)
  /\ before' = body
  /\ UNCHANGED <<messages, covered, request, failed, told>>

\* edge_fallback_route: the cloud failed before its first word.
FallBack(s) ==
  /\ stage = "sent" /\ body.via = "cloud" /\ Route(s, FALSE) = "edge"
  /\ body' = EdgeBody(s)
  /\ UNCHANGED <<messages, covered, request, stage, failed, told, before>>

Reply(kind) ==
  /\ stage = "sent" /\ kind \in {"plain", "empty"} /\ (kind # "plain" => Cardinality(Odd) < MaxOdd)
  /\ messages' = Append(messages, kind) /\ stage' = "idle"
  /\ UNCHANGED <<covered, request, failed, told, body, before>>

Full == stage = "idle" /\ Len(messages) >= MaxMessages /\ UNCHANGED vars

Next ==
  \/ \E kind \in Kinds : Say(kind) \/ Reply(kind)
  \/ \E i \in DOMAIN messages : Edit(i)
  \/ \E works \in BOOLEAN : Prepare(works)
  \/ \E s \in Settings : Send(s) \/ FallBack(s)
  \/ Post \/ Full

Spec == Init /\ [][Next]_vars
-----------------------------------------------------------------------------
Places(b) == {b.middle[k].at : k \in DOMAIN b.middle}
JustSent  == stage = "sent" /\ body.via # "none"

\* Every message of the conversation is in the prompt or under the summary, and
\* none is in both. If not, the user was told, or the compression has just
\* failed, or the prompt would not have fitted (buildCompressedRequestParts
\* with sliding_window_messages and token_trim: three places that cut).
NothingForgotten ==
  JustSent /\ ~told /\ ~failed =>
    LET missing == Spoken \ (1 .. covered \cup Places(body))
    IN  /\ Places(body) \cap 1 .. covered = {}
        /\ missing # {} => /\ body.via = "cloud"
                           /\ ~Fits(missing \cup Places(body), body.model)

\* What is asked is asked: the question and, without a gap, the messages before
\* it are in the prompt; a picture only goes to the model that sees; what is
\* reported as untrusted is what is in the prompt; and a prompt that still does
\* not fit holds nothing more that may be dropped, or the model has no room at all
\* (build_deepseek_request).
PromptIsWhole ==
  JustSent =>
    /\ Question \in Places(body)
    /\ Places(body) = {i \in Spoken : i >= Min(Places(body))}
    /\ body.via = "cloud" /\ (\E k \in DOMAIN body.middle : body.middle[k].as = "pixels") => body.model = "pro"
    /\ body.untrusted \ {0} = {i \in Places(body) : messages[i] = "file"}
    /\ body.advice = "trim" => \/ covered = 0 \/ Available[body.model] = 0
                              \/ Len(body.middle) <= MinKeep

\* From turn to turn the prompt only grows at its end, so that the provider's
\* cache of its beginning holds: if nothing was compressed, cut or dropped, the
\* last prompt, but for the pixels of its question, is the beginning of this one
\* (append_context_to_latest_user, whose comment tells how this once failed).
PrefixKept ==
  JustSent /\ body.via = "cloud" /\ before.via = "cloud" /\ body # before
      /\ body.covered = before.covered /\ ~body.cut /\ ~before.cut
      /\ body.dropped = 0 /\ before.dropped = 0 =>
    /\ Len(before.middle) < Len(body.middle)
    /\ \A k \in DOMAIN before.middle :
         \/ before.middle[k] = body.middle[k]
         \/ before.middle[k] = [body.middle[k] EXCEPT !.as = "pixels"] /\ k = Len(before.middle)

\* What ARCHITECTURE.md promises: no history is lost without a word.
NoSilentLoss ==
  JustSent /\ ~told /\ body.via = "cloud" /\ WeightOf(Spoken) < Available[body.model] =>
    Spoken \subseteq 1 .. covered \cup Places(body)
=============================================================================
