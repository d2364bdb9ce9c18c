------------------------------ MODULE Directory -------------------------------
(***************************************************************************)
(* The parts of an application's directory that live on one session: the    *)
(* discovery cache and the agents of the server.  Each asks the server by   *)
(* IQ and waits for the answer in a callback; when the stream ends, both    *)
(* are left with what they have asked.                                      *)
(***************************************************************************)
EXTENDS DiscoDB, Agents

CONSTANT MaxBeside      \* bound on the calls of cache() beside those of fetch()

ASSUME DirectoryAssumption == MaxBeside \in Nat

dirVars == <<discoVars, agentVars>>

\* The session runs one handler at a time.
DiscoStep ==
    /\ Telling = {}
    /\ Next
    /\ UNCHANGED agentVars

AgentStep ==
    /\ loop = Idle /\ fault = "no"
    /\ AgentsNext
    /\ UNCHANGED discoVars

StreamEnds ==
    /\ fault = "no" /\ Telling = {}
    /\ requests # {} \/ fetches # {}
    /\ lose
    /\ loseFetches

DirInit == Init /\ AgentsInit

DirNext ==
    /\ DiscoStep \/ AgentStep \/ StreamEnds
    /\ fetched' = 0 \/ calls' <= MaxBeside

DirSpec == DirInit /\ [][DirNext]_dirVars
=============================================================================
