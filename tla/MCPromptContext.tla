-------------------------- MODULE MCPromptContext --------------------------
EXTENDS PromptContext, MCTurns
=============================================================================
