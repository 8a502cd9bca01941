----------------------------- MODULE MCExitSide -----------------------------
(* The two halves of an exit Node's stream to a server: the ProxyClient's   *)
(* pool of streams, and the writer that puts a stream's packets in order.   *)
(* The pool abstracts its writers, so a behaviour is about one of them:     *)
(* part says which, and the other stays as it started.                      *)
EXTENDS ExitPool, SequencedWriter, TLC

CONSTANT k1

(* Four packets: two bytes, none, one, and two with last_data.             *)
MCStart == (0 :> 0) @@ (1 :> 2) @@ (2 :> 2) @@ (3 :> 3) @@ (4 :> 5)

VARIABLE part

ExitSideInit == part \in {"pool", "writer"} /\ ExitInit /\ WriterInit

ExitSideNext ==
  \/ part = "pool" /\ ExitNext /\ UNCHANGED <<part, swVars>>
  \/ part = "writer" /\ WriterNext /\ UNCHANGED <<part, exitVars>>

\* The fairness of the two, each where a behaviour is about it.
PoolRuns(A) == part = "pool" /\ A
WriterRuns(A) == part = "writer" /\ A

ExitSideFairSpec ==
  /\ ExitSideInit /\ [][ExitSideNext]_<<part, exitVars, swVars>>
  /\ WF_exitVars(PoolRuns(HandleMail)) /\ WF_exitVars(PoolRuns(OtherPacketArrives))
  /\ WF_exitVars(PoolRuns(\E e \in establishing :
        StreamEstablished(e) \/ LookupFails(e) \/ ConnectionFails(e)))
  /\ WF_exitVars(PoolRuns(\E f \in failing : WriteFailed(f)))
  /\ WF_exitVars(PoolRuns(\E t \in tending : Tend(t)))
  /\ \A s \in StreamIds :
       WF_exitVars(PoolRuns(s \in DOMAIN streams /\ (WriterPolled(s) \/ WriterDies(s))))
  /\ WF_swVars(WriterRuns(SocketReady)) /\ WF_swVars(WriterRuns(Poll))
  /\ WF_swVars(WriterRuns(ReadPacket \/ ReadEnds)) /\ WF_swVars(WriterRuns(NothingDue))
  /\ SF_swVars(WriterRuns(WriteAll))
=============================================================================
