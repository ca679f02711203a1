---------------------------- MODULE SaoContract ----------------------------
(***************************************************************************)
(* What run_one_exec (sao-server/src/session.rs) promises to the other end *)
(* of the connection, without the tasks, pipes, channel, child process and *)
(* timer that keep the promise: the frames of one execution that a client  *)
(* can decode.                                                             *)
(***************************************************************************)
EXTENDS Integers, Sequences, FiniteSets

CONSTANTS
    Streams,    \* the types of stream frames
    ExitCodes,  \* what an EXEC_EXIT frame may carry
    Flushes     \* whether a whole frame may still wait for its flush (TLS)

VARIABLES
    written,    \* chunks written to each stream
    lost,       \* streams that could not be read to their end
    got,        \* frames that can be decoded so far
    open        \* FALSE: nothing more can be decoded of this execution

contractVars == <<written, lost, got, open>>

ContractInit ==
    /\ written = [s \in Streams |-> 0] /\ lost = {}
    /\ got = <<>> /\ open = TRUE

Count(types)   == Cardinality({i \in DOMAIN got : got[i].type \in types})
Results        == Count({"EXEC_EXIT", "POLICY_DENIED"})
Complete       == \A s \in Streams \ lost : Count({s}) = written[s]

\* a frame, and with it perhaps the end of the execution
Sends(f) ==
    /\ open /\ open' \in BOOLEAN
    /\ got' = Append(got, f)
    /\ UNCHANGED <<written, lost>>

\* the next chunk of a stream
Output(s) ==
    /\ Results = 0 /\ Count({s}) < written[s]
    /\ Sends([type |-> s, val |-> Count({s}) + 1])

\* the shell's code after all its output, or 124 at any time
Answer(code) ==
    /\ Results = 0
    /\ Complete \/ code = 124
    /\ Sends([type |-> "EXEC_EXIT", val |-> code])

\* over TLS a timeout may strike after the answer
SecondAnswer ==
    /\ Flushes /\ Results = 1 /\ Count({"POLICY_DENIED"}) = 0
    /\ Sends([type |-> "EXEC_EXIT", val |-> 124])

Denial ==
    /\ got = <<>> /\ \A s \in Streams : written[s] = 0
    /\ Sends([type |-> "POLICY_DENIED", val |-> 0])

Breaks ==
    /\ open /\ open' = FALSE
    /\ UNCHANGED <<written, lost, got>>

Produced(s) ==
    /\ written' = [written EXCEPT ![s] = @ + 1]
    /\ UNCHANGED <<lost, got, open>>

Lost(s) ==
    /\ lost' = lost \cup {s}
    /\ UNCHANGED <<written, got, open>>

ContractNext ==
    \/ \E s \in Streams : Output(s) \/ Produced(s) \/ Lost(s)
    \/ \E code \in ExitCodes : Answer(code)
    \/ SecondAnswer \/ Denial \/ Breaks

ContractSpec == ContractInit /\ [][ContractNext]_contractVars

=============================================================================
