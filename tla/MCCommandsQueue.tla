-------------------------- MODULE MCCommandsQueue --------------------------
(* Instances of CommandsQueue for TLC. *)
EXTENDS CommandsQueue, TLC

CONSTANTS asking, multi, exec, get, set, hello, cached, askChain, pipeChain

\* ASKING + MULTI/EXEC, a pipeline of two, an asap command, one with a prelude
WireReq == {"ask", "pipe", "asap", "cached"}
WireKindOf == "ask" :> "multi" @@ "pipe" :> "pipeline" @@ "asap" :> "command"
              @@ "cached" :> "command"
WireLeadOf == "ask" :> asking @@ "pipe" :> NoLead @@ "asap" :> NoLead
              @@ "cached" :> NoLead
WireBodyOf == "ask" :> <<multi, exec>> @@ "pipe" :> <<get, set>>
              @@ "asap" :> <<hello>> @@ "cached" :> <<cached>>
WireChainOf == asking :> askChain @@ multi :> askChain @@ exec :> askChain
               @@ get :> pipeChain @@ set :> pipeChain
               @@ hello :> NoChain @@ cached :> NoChain
WireOptionsOf == asking :> {} @@ multi :> {"timeout"} @@ exec :> {}
                 @@ get :> {"abort"} @@ set :> {}
                 @@ hello :> {} @@ cached :> {"timeout"}

=============================================================================
