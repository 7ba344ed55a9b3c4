----------------------------- MODULE MCStreams -----------------------------
(***************************************************************************)
(* Four machines around the answers in one run, one of them at a time: two *)
(* requests and the threads that serve them, a parallel layer of agents    *)
(* with its workers, the browsers that follow the event log of a run, and  *)
(* the catalogue of the external tools.                                    *)
(***************************************************************************)
EXTENDS ChatStream, LayerSizes

CONSTANTS req1, req2, a1, a2, Browsers, MaxEvents, MaxDrops, MaxRestarts,
          s1, Threads, FailuresToOpen

VARIABLES which,
  lead, turn, gates, future, tried, said, hand, output, posted, node, late, stop, \* AgentLayer
  count, resting, stream, cursor, batch, got, drops, restarts, \* RunEvents
  up, fails, opened, catalogue, fresh, step, at, tries, found, broken, committed \* McpBridge

layer  == <<lead, turn, gates, future, tried, said, hand, output, posted, node, late, stop>>
events == <<count, resting, stream, cursor, batch, got, drops, restarts>>
bridge == <<up, fails, opened, catalogue, fresh, step, at, tries, found, broken, committed>>
all == <<which, vars, layer, events, bridge>>

Is(kind, tooled, local) == [kind |-> kind, tooled |-> tooled, local |-> local]

\* Two streams, of which one calls tools and one has a local model; a stream
\* beside a cascade that calls tools; a cascade and a JSON call that share the
\* cache.
MCMixes ==
  {req1 :> p[1] @@ req2 :> p[2] : p \in
     {<<Is("stream", TRUE, FALSE), Is("stream", FALSE, TRUE)>>,
      <<Is("stream", FALSE, FALSE), Is("cascade", TRUE, FALSE)>>,
      <<Is("json", FALSE, TRUE), Is("cascade", FALSE, FALSE)>>}}

MCOrder == <<a1, a2>>

L == INSTANCE AgentLayer WITH gate <- gates, attempt <- tried, cancel <- stop
E == INSTANCE RunEvents
M == INSTANCE McpBridge WITH Order <- <<s1>>, pc <- step

\* The machine of a behaviour is chosen at the start; the others rest.
MCInit ==
  /\ which \in {"chat", "layer", "events", "bridge"}
  /\ IF which = "chat" THEN TRUE
     ELSE body = req1 :> Is("stream", TRUE, FALSE) @@ req2 :> Is("stream", FALSE, TRUE)
  /\ IF which = "bridge" THEN TRUE ELSE up = {}
  /\ IF which = "layer" THEN TRUE ELSE stop = "none"
  /\ Init /\ L!Init /\ E!Init /\ M!Init

InChat(A)   == which = "chat" /\ A /\ UNCHANGED <<which, layer, events, bridge>>
InLayer(A)  == which = "layer" /\ A /\ UNCHANGED <<which, vars, events, bridge>>
InEvents(A) == which = "events" /\ A /\ UNCHANGED <<which, vars, layer, bridge>>
InBridge(A) == which = "bridge" /\ A /\ UNCHANGED <<which, vars, layer, events>>

MCNext ==
  \/ which = "chat" /\ Next /\ UNCHANGED <<which, layer, events, bridge>>
  \/ which = "layer" /\ L!Next /\ UNCHANGED <<which, vars, events, bridge>>
  \/ which = "events" /\ E!Next /\ UNCHANGED <<which, vars, layer, bridge>>
  \/ which = "bridge" /\ M!Next /\ UNCHANGED <<which, vars, layer, events>>

MCSpec ==
  /\ MCInit /\ [][MCNext]_all
  /\ \A r \in Requests : WF_all(InChat(Working(r))) /\ WF_all(InChat(Served(r)))
  /\ WF_all(InLayer(L!Leading))
  /\ \A c \in Browsers : WF_all(InEvents(E!Follows(c)))
  /\ \A t \in Threads : WF_all(InBridge(M!Step(t)))
  /\ WF_all(InBridge(M!ResetPasses(s1)))
  /\ WF_all(InBridge(M!Expire))

\* The properties of the instances, and those that only hold of a behaviour in
\* which their machine is the one that runs.
VerdictIsFinal     == L!VerdictIsFinal
EndsWithEverything == E!EndsWithEverything
RecoversWhenUp     == which = "bridge" => M!RecoversWhenUp

\* EveryCallEnds, LayerReturns and EventsArrive as one: what has ended stays so.
EverythingEnds ==
  []<>(/\ which = "chat" => \A r \in Requests : Ended(r)
       /\ which = "layer" => L!Over
       /\ which = "events" => \A c \in Browsers : E!CaughtUp(c))
=============================================================================
