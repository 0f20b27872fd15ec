------------------------ MODULE MeetingSessionProofs ------------------------
(***************************************************************************)
(* Proofs about MeetingSession for any sets of sessions and workers, any   *)
(* reports of the bot, and any number of failing statements and restarts.  *)
(*                                                                         *)
(* The inductive invariant is IInv: the types, and that every goroutine is *)
(* Sound: it has the locals its next statement needs, and a status write   *)
(* it is about to make was decided by the rules from the status it read.   *)
(***************************************************************************)
EXTENDS MeetingSession, TLAPS

\* A goroutine has what its next statement needs: the status to write while it
\* updates, what the read returned before it writes, and the session everywhere
\* but in front of the insert.  A status it is about to write is one the rules ask
\* for, given the status it read; the row may move in between.
Sound(g) ==
    /\ g.pc \in {"read", "write", "writeEnding"} => g.req \in Statuses
    /\ g.pc \in {"write", "writeEnding"} => g.prev # "none"
    /\ g.pc \notin {"idle", "insert"} => g.s \in Sessions
    /\ g.pc = "write" =>
         \/ g.prev = "unread"
         \/ Decide(g.prev, g.req, g.fatal) = "write"
    /\ g.pc = "writeEnding" => g.prev \in Reusable

IInv == TypeOK /\ \A p \in Procs : Sound(proc[p])

-----------------------------------------------------------------------------
(* The goroutines the actions build. *)

\* An idle goroutine is well typed.
LEMMA IdleType == Idle \in Goroutine
  BY DEF Idle, On, Local, Goroutine, PCs

\* A goroutine that starts an update or a finalization is well typed.
LEMMA NewGoroutineType ==
  ASSUME NEW s \in Sessions, NEW req \in Statuses, NEW fatal \in BOOLEAN,
         NEW task \in {"report", "end"}
  PROVE  /\ Update(s, req, fatal, task) \in Goroutine
         /\ On(s, "start") \in Goroutine
  BY DEF Update, On, Local, Goroutine, PCs

\* What Decide can answer, and what the two writing answers imply about the
\* status that was read.
LEMMA DecideAnswers ==
  ASSUME NEW prev \in Statuses, NEW req \in Statuses, NEW fatal \in BOOLEAN
  PROVE  /\ Decide(prev, req, fatal) \in {"return", "start", "writeEnding", "write"}
         /\ Decide(prev, req, fatal) = "writeEnding" => prev \in Reusable /\ req = "ended"
         /\ Decide(prev, req, fatal) = "write" =>
              /\ prev \in Terminal => req \in Terminal
              /\ req = "failed" /\ prev \in JoinedOrBeyond => fatal
              /\ req = "ended" /\ Finalizer => prev \in {"failed", "stale"}
  BY ConstantsAssumption
     DEF Decide, SuppressedFailure, SuppressedRevival, Statuses, Reusable,
         Terminal, JoinedOrBeyond

-----------------------------------------------------------------------------
(* IInv is inductive. *)

\* The initial state satisfies the invariant.
LEMMA InitInv == Init => IInv
  <1> SUFFICES ASSUME Init PROVE IInv
    OBVIOUS
  <1>1. \A p \in Procs : proc[p] = Idle
    BY DEF Init
  <1>2. TypeOK
    BY IdleType, ConstantsAssumption DEF Init, TypeOK, Rows
  <1>3. \A p \in Procs : Sound(proc[p])
    BY <1>1 DEF Sound, Idle, On, Local
  <1> QED
    BY <1>2, <1>3 DEF IInv

ProcOK == proc \in [Procs -> Goroutine] /\ \A p \in Procs : Sound(proc[p])

\* The part of TypeOK that is not about goroutines.
StoreOK ==
    /\ row \in [Sessions -> Rows]
    /\ seen \in [Sessions -> {"never", "fresh", "silent"}]
    /\ old \in [Sessions -> BOOLEAN]
    /\ analyses \in [Sessions -> BOOLEAN]
    /\ fin \in [Sessions -> {"none", "running", "returned"}]
    /\ todo \subseteq Sessions
    /\ bot \in [Sessions -> {"none", "live", "gone"}]
    /\ faults \in 0..MaxFaults
    /\ crashes \in 0..MaxCrashes

LEMMA IInvSplit == IInv <=> StoreOK /\ ProcOK
  BY DEF IInv, StoreOK, ProcOK, TypeOK

\* ProcOK is Sound for every goroutine.
LEMMA ProcOKSound ==
  ProcOK <=> proc \in [Procs -> Goroutine] /\ \A p \in Procs : Sound(proc[p])
  BY DEF ProcOK

LEMMA ProcOKSoundNext ==
  ProcOK' <=> proc' \in [Procs -> Goroutine] /\ \A p \in Procs : Sound(proc'[p])
  BY DEF ProcOK

\* A goroutine that moves to a sound place keeps the process state sound.
LEMMA GotoSound ==
  ASSUME ProcOK, NEW p \in Procs, NEW g \in Goroutine, Sound(g), Goto(p, g)
  PROVE  ProcOK'
  BY ProcOKSound, ProcOKSoundNext DEF Goto

\* No goroutine moves.
LEMMA StaySound == ASSUME ProcOK, UNCHANGED proc PROVE ProcOK'
  BY ProcOKSound, ProcOKSoundNext

\* Idle, and a goroutine at any location but the two writes, are sound.
LEMMA OnSound ==
  ASSUME NEW s \in Sessions,
         NEW pc \in {"start", "lookup", "command", "fallback", "join", "markJoining",
                     "markFailed", "check", "remove"}
  PROVE  On(s, pc) \in Goroutine /\ Sound(On(s, pc))
  BY DEF On, Local, Goroutine, PCs, Sound

LEMMA UpdateSound ==
  ASSUME NEW s \in Sessions, NEW req \in Statuses, NEW fatal \in BOOLEAN,
         NEW task \in {"report", "end"}
  PROVE  Update(s, req, fatal, task) \in Goroutine /\ Sound(Update(s, req, fatal, task))
  BY DEF Update, Local, Goroutine, PCs, Sound

LEMMA IdleSound ==
  /\ Idle \in Goroutine /\ Sound(Idle)
  /\ On(NoSession, "insert") \in Goroutine /\ Sound(On(NoSession, "insert"))
  BY DEF Idle, On, Local, Goroutine, PCs, Sound

\* Returning from an update is a sound move.
LEMMA ResumeSound ==
  ASSUME ProcOK, NEW p \in Procs, proc[p].s \in Sessions, Resume(p)
  PROVE  ProcOK'
  <1>1. CASE proc[p].task = "end"
    BY <1>1, GotoSound, OnSound DEF Resume
  <1>2. CASE proc[p].task # "end"
    BY <1>2, GotoSound, IdleSound DEF Resume
  <1> QED
    BY <1>1, <1>2

\* The decision after a read is a sound move.
LEMMA DecidedSound ==
  ASSUME NEW g \in Goroutine, g.req \in Statuses, g.s \in Sessions,
         NEW prev \in Statuses, Decide(prev, g.req, g.fatal) # "return"
  PROVE  Decided(g, prev) \in Goroutine /\ Sound(Decided(g, prev))
  <1> DEFINE next == Decide(prev, g.req, g.fatal)
  <1>1. g.fatal \in BOOLEAN /\ g.task \in {"report", "end"} /\ prev # "none"
    BY DEF Goroutine, Statuses, Reusable, Terminal
  <1>2. next \in {"start", "writeEnding", "write"} /\ (next = "writeEnding" => prev \in Reusable)
    BY <1>1, DecideAnswers
  <1>3. CASE next = "start"
    BY <1>3, OnSound DEF Decided
  <1>4. CASE next # "start"
    <2>1. Decided(g, prev) = Local(next, g.s, g.req, g.fatal, prev, g.task)
      BY <1>4 DEF Decided
    <2>2. Local(next, g.s, g.req, g.fatal, prev, g.task) \in Goroutine
      BY <1>1, <1>2, <1>4 DEF Local, Goroutine, PCs
    <2>3. Sound(Local(next, g.s, g.req, g.fatal, prev, g.task))
      BY <1>1, <1>2, <1>4 DEF Sound, Local
    <2> QED
      BY <2>1, <2>2, <2>3
  <1> QED
    BY <1>3, <1>4

-----------------------------------------------------------------------------
(* One lemma per group of actions. *)

\* A failing statement stays within the bound.
LEMMA FaultBound == ASSUME StoreOK, Fault PROVE faults' \in 0..MaxFaults
  BY ConstantsAssumption DEF StoreOK, Fault

\* The shared statements keep the store typed.
LEMMA SweepTypes ==
  ASSUME StoreOK, SweepFirst
  PROVE  /\ row' \in [Sessions -> Rows] /\ old' \in [Sessions -> BOOLEAN]
         /\ faults' \in 0..MaxFaults
  <1>1. CASE SweepStale /\ UNCHANGED faults
    BY <1>1 DEF StoreOK, SweepStale, Rows, Statuses, Terminal
  <1>2. CASE Fault /\ UNCHANGED <<row, old>>
    BY <1>2, FaultBound DEF StoreOK
  <1> QED
    BY <1>1, <1>2 DEF SweepFirst

LEMMA SetStatusTypes ==
  ASSUME StoreOK, NEW s \in Sessions, NEW status \in Statuses,
         SetStatus(s, status) \/ AnswerLost(s, status)
  PROVE  /\ row' \in [Sessions -> Rows] /\ old' \in [Sessions -> BOOLEAN]
         /\ faults' \in 0..MaxFaults
  BY FaultBound DEF StoreOK, SetStatus, AnswerLost, Stored, Rows

LEMMA StatementFailsTypes ==
  ASSUME StoreOK, NEW s \in Sessions, StatementFails(s)
  PROVE  UNCHANGED <<row, old, seen>> /\ faults' \in 0..MaxFaults
  BY FaultBound DEF StoreOK, StatementFails

\* The steps of UpdateMeetingSessionStatus and of the finalizer.
LEMMA UpdateSteps ==
  ASSUME StoreOK, ProcOK, NEW p \in Procs,
         UpdateRead(p) \/ UpdateWrite(p) \/ UpdateWriteEnding(p) \/ StartFinalization(p)
  PROVE  StoreOK' /\ ProcOK'
  <1> DEFINE g == proc[p]
  <1>1. g \in Goroutine /\ Sound(g)
    BY ProcOKSound
  <1>2. CASE UpdateRead(p)
    <2>1. g.req \in Statuses /\ g.s \in Sessions
      BY <1>1, <1>2 DEF UpdateRead, At, Sound
    <2>2. StoreOK'
      BY <1>2, FaultBound DEF UpdateRead, StoreOK
    <2>3. CASE Exists(g.s) /\ Decide(row[g.s], g.req, g.fatal) = "return" /\ Resume(p)
      BY <2>1, <2>2, <2>3, ResumeSound
    <2>4. CASE /\ Exists(g.s) /\ Decide(row[g.s], g.req, g.fatal) # "return"
               /\ Goto(p, Decided(g, row[g.s]))
      <3>1. row[g.s] \in Statuses
        BY <2>4 DEF Exists
      <3>2. Decided(g, row[g.s]) \in Goroutine /\ Sound(Decided(g, row[g.s]))
        BY <1>1, <2>1, <2>4, <3>1, DecidedSound
      <3> QED
        BY <2>2, <2>4, <3>2, GotoSound
    <2>5. CASE Goto(p, Local("write", g.s, g.req, g.fatal, "unread", g.task))
      <3> DEFINE h == Local("write", g.s, g.req, g.fatal, "unread", g.task)
      <3>1. h \in Goroutine
        BY <1>1, <2>1 DEF Local, Goroutine, PCs
      <3>2. Sound(h)
        BY <2>1 DEF Local, Sound
      <3> QED
        BY <2>2, <2>5, <3>1, <3>2, GotoSound
    <2> QED
      BY <1>2, <2>2, <2>3, <2>4, <2>5 DEF UpdateRead
  <1>3. CASE UpdateWrite(p)
    <2>1. g.req \in Statuses /\ g.s \in Sessions
      BY <1>1, <1>3 DEF UpdateWrite, At, Sound
    <2>2. StoreOK'
      BY <1>3, <2>1, SetStatusTypes, StatementFailsTypes DEF UpdateWrite, StoreOK
    <2>3. ProcOK'
      BY <1>3, <2>1, ResumeSound, GotoSound, IdleSound DEF UpdateWrite, Return
    <2> QED
      BY <2>2, <2>3
  <1>4. CASE UpdateWriteEnding(p)
    <2>1. g.s \in Sessions /\ "ending" \in Statuses
      BY <1>1, <1>4 DEF UpdateWriteEnding, At, Sound, Statuses
    <2>2. StoreOK'
      BY <1>4, <2>1, SetStatusTypes, StatementFailsTypes DEF UpdateWriteEnding, StoreOK
    <2>3. ProcOK'
      BY <1>4, <2>1, OnSound, GotoSound, IdleSound DEF UpdateWriteEnding, Return
    <2> QED
      BY <2>2, <2>3
  <1>5. CASE StartFinalization(p)
    <2>1. StoreOK'
      BY <1>5 DEF StartFinalization, StoreOK
    <2>2. ProcOK'
      BY <1>5, GotoSound, IdleSound DEF StartFinalization, Return
    <2> QED
      BY <2>1, <2>2
  <1> QED
    BY <1>2, <1>3, <1>4, <1>5

LEMMA FinalizerSteps ==
  ASSUME StoreOK, ProcOK, NEW s \in Sessions, FinalizerStep(s)
  PROVE  StoreOK' /\ ProcOK'
  <1>1. CASE FinalizerReturns(s)
    BY <1>1, StaySound, FaultBound DEF FinalizerReturns, StoreOK
  <1>2. CASE FinalizerPersistsEnded(s)
    <2>1. "ended" \in Statuses
      BY DEF Statuses, Terminal
    <2>2. StoreOK'
      BY <1>2, <2>1, SetStatusTypes, StatementFailsTypes DEF FinalizerPersistsEnded, StoreOK
    <2> QED
      BY <1>2, <2>2, StaySound DEF FinalizerPersistsEnded
  <1> QED
    BY <1>1, <1>2 DEF FinalizerStep


\* The steps of CreateMeetingSession.
LEMMA CreateSteps ==
  ASSUME StoreOK, ProcOK, NEW p \in Procs,
         \/ CreateArrives(p) \/ CreateReuses(p) \/ CreateInserts(p) \/ CreateFails(p)
         \/ SendJoinCommand(p) \/ MarkCommandSent(p) \/ MarkCommandFailed(p)
  PROVE  StoreOK' /\ ProcOK'
  <1>1. Sound(proc[p])
    BY ProcOKSound
  <1>2. CASE CreateArrives(p)
    <2>1. StoreOK'
      BY <1>2, SweepTypes DEF CreateArrives, StoreOK
    <2> QED
      BY <1>2, <2>1, GotoSound, IdleSound DEF CreateArrives
  <1>3. CASE CreateReuses(p)
    <2>1. StoreOK'
      BY <1>3 DEF CreateReuses, StoreOK
    <2> QED
      BY <1>3, <2>1, GotoSound, IdleSound DEF CreateReuses, Return
  <1>4. CASE CreateInserts(p)
    <2>1. PICK s \in Sessions :
            /\ row' = [row EXCEPT ![s] = "requested"]
            /\ \/ Goto(p, On(s, "join")) /\ UNCHANGED faults
               \/ Fault /\ Return(p)
      BY <1>4 DEF CreateInserts
    <2>2. row' \in [Sessions -> Rows]
      BY <2>1 DEF StoreOK, Rows, Statuses, Reusable
    <2>3. StoreOK'
      BY <1>4, <2>1, <2>2, FaultBound DEF CreateInserts, StoreOK
    <2>4. ProcOK'
      BY <2>1, OnSound, GotoSound, IdleSound DEF Return
    <2> QED
      BY <2>3, <2>4
  <1>5. CASE CreateFails(p)
    <2>1. StoreOK'
      BY <1>5 DEF CreateFails, StoreOK
    <2> QED
      BY <1>5, <2>1, GotoSound, IdleSound DEF CreateFails, Return
  <1>6. CASE SendJoinCommand(p)
    <2>1. proc[p].s \in Sessions
      BY <1>1, <1>6 DEF SendJoinCommand, At, Sound
    <2>2. StoreOK'
      BY <1>6, <2>1 DEF SendJoinCommand, StoreOK
    <2>3. ProcOK'
      BY <1>6, <2>1, OnSound, GotoSound DEF SendJoinCommand
    <2> QED
      BY <2>2, <2>3
  <1>7. ASSUME NEW pc \in {"markJoining", "markFailed"}, NEW status \in Statuses,
               MarkCommand(p, pc, status)
        PROVE  StoreOK' /\ ProcOK'
    <2>1. proc[p].s \in Sessions
      BY <1>1, <1>7 DEF MarkCommand, At, Sound
    <2>2. StoreOK'
      BY <1>7, <2>1, SetStatusTypes, StatementFailsTypes DEF MarkCommand, StoreOK
    <2> QED
      BY <1>7, <2>2, GotoSound, IdleSound DEF MarkCommand, Return
  <1>8. "joining" \in Statuses /\ "failed" \in Statuses
    BY DEF Statuses, Reusable, Terminal
  <1> QED
    BY <1>2, <1>3, <1>4, <1>5, <1>6, <1>7, <1>8 DEF MarkCommandSent, MarkCommandFailed

\* The steps of EndMeetingSession and of the fallback timer.
LEMMA EndSteps ==
  ASSUME StoreOK, ProcOK, NEW p \in Procs,
         EndLookup(p) \/ SendEndCommand(p) \/ FallbackFires(p)
  PROVE  StoreOK' /\ ProcOK'
  <1>1. Sound(proc[p])
    BY ProcOKSound
  <1>2. proc[p].s \in Sessions
    BY <1>1 DEF EndLookup, SendEndCommand, FallbackFires, At, Sound
  <1>3. "ending" \in Statuses /\ "ended" \in Statuses
    BY DEF Statuses, Terminal
  <1>4. StoreOK'
    BY FaultBound DEF EndLookup, SendEndCommand, FallbackFires, StoreOK
  <1>5. CASE EndLookup(p)
    BY <1>2, <1>3, <1>4, <1>5, OnSound, UpdateSound, IdleSound, GotoSound
       DEF EndLookup, Return
  <1>6. CASE SendEndCommand(p)
    BY <1>2, <1>3, <1>4, <1>6, OnSound, UpdateSound, IdleSound, GotoSound
       DEF SendEndCommand, Return
  <1>7. CASE FallbackFires(p)
    BY <1>2, <1>3, <1>4, <1>7, UpdateSound, IdleSound, GotoSound
       DEF FallbackFires, Return
  <1> QED
    BY <1>5, <1>6, <1>7

\* The steps of DeleteMeetingSession.
LEMMA DeleteSteps ==
  ASSUME StoreOK, ProcOK, NEW p \in Procs, DeleteCheck(p) \/ DeleteRows(p)
  PROVE  StoreOK' /\ ProcOK'
  <1>1. proc[p].s \in Sessions
    BY ProcOKSound DEF DeleteCheck, DeleteRows, At, Sound
  <1>2. CASE DeleteCheck(p)
    <2>1. StoreOK'
      BY <1>2 DEF DeleteCheck, StoreOK
    <2> QED
      BY <1>1, <1>2, <2>1, OnSound, IdleSound, GotoSound DEF DeleteCheck
  <1>3. CASE DeleteRows(p)
    <2>1. StoreOK'
      BY <1>1, <1>3, FaultBound DEF DeleteRows, StoreOK, Rows
    <2> QED
      BY <1>3, <2>1, IdleSound, GotoSound DEF DeleteRows, Return
  <1> QED
    BY <1>2, <1>3

\* Arriving requests, and a watchdog that ends a session of its snapshot.
LEMMA ArrivalSteps ==
  ASSUME StoreOK, ProcOK, NEW p \in Procs,
         ArrivesAt(p) \/ (p = Watchdog /\ WatchdogEnds)
  PROVE  StoreOK' /\ ProcOK'
  <1>1. CASE CreateArrives(p)
    BY <1>1, CreateSteps
  <1>2. ASSUME NEW s \in Sessions, EndArrives(p, s) \/ DeleteArrives(p, s)
        PROVE  StoreOK' /\ ProcOK'
    <2>1. StoreOK'
      BY <1>2, SweepTypes DEF EndArrives, DeleteArrives, StoreOK
    <2> QED
      BY <1>2, <2>1, OnSound, GotoSound DEF EndArrives, DeleteArrives
  <1>3. ASSUME NEW s \in Sessions, NEW req \in BotReports, NEW fatal \in BOOLEAN,
               ReportArrives(p, s, req, fatal)
        PROVE  StoreOK' /\ ProcOK'
    <2>1. req \in Statuses
      BY ConstantsAssumption
    <2>2. StoreOK'
      BY <1>3, SweepTypes DEF ReportArrives, StoreOK
    <2> QED
      BY <1>3, <2>1, <2>2, UpdateSound, GotoSound DEF ReportArrives
  <1>4. CASE p = Watchdog /\ WatchdogEnds
    <2>1. PICK s \in todo :
            Goto(Watchdog, Update(s, "ended", FALSE, "report")) /\ todo' = todo \ {s}
      BY <1>4 DEF WatchdogEnds
    <2>2. s \in Sessions /\ "ended" \in Statuses
      BY <2>1 DEF StoreOK, Statuses, Terminal
    <2>3. StoreOK'
      BY <1>4, <2>1 DEF WatchdogEnds, StoreOK
    <2> QED
      BY <1>4, <2>1, <2>2, <2>3, UpdateSound, GotoSound
  <1> QED
    BY <1>1, <1>2, <1>3, <1>4 DEF ArrivesAt

\* Steps that move no goroutine, and the restart, which drops them all.
LEMMA OtherSteps ==
  ASSUME StoreOK, ProcOK,
         \/ WatchdogScans \/ CleanupStale \/ Restart
         \/ \E s \in Sessions : \/ Heartbeat(s) \/ BotLeaves(s)
                                \/ BecomesSilent(s) \/ BecomesOld(s)
  PROVE  StoreOK' /\ ProcOK'
  <1>1. CASE WatchdogScans
    BY <1>1, StaySound DEF WatchdogScans, StoreOK
  <1>2. CASE CleanupStale
    <2>1. SweepFirst
      BY <1>2 DEF CleanupStale, SweepFirst
    <2> QED
      BY <1>2, <2>1, StaySound, SweepTypes DEF CleanupStale, StoreOK
  <1>3. CASE Restart
    <2>1. StoreOK'
      BY <1>3, ConstantsAssumption DEF Restart, StoreOK
    <2> QED
      BY <1>3, <2>1, IdleSound, ProcOKSoundNext DEF Restart
  <1>4. ASSUME NEW s \in Sessions,
               Heartbeat(s) \/ BotLeaves(s) \/ BecomesSilent(s) \/ BecomesOld(s)
        PROVE  StoreOK' /\ ProcOK'
    BY <1>4, StaySound DEF Heartbeat, BotLeaves, BecomesSilent, BecomesOld, StoreOK
  <1> QED
    BY <1>1, <1>2, <1>3, <1>4

\* Every step keeps the invariant.
LEMMA StepInv == IInv /\ [Next]_vars => IInv'
  <1> SUFFICES ASSUME IInv, [Next]_vars PROVE IInv'
    OBVIOUS
  <1>1. StoreOK /\ ProcOK
    BY IInvSplit
  <1>2. StoreOK' /\ ProcOK' => IInv'
    BY DEF IInv, StoreOK, ProcOK, TypeOK
  <1>3. CASE UNCHANGED vars
    BY <1>1, <1>2, <1>3, StaySound DEF vars, StoreOK
  <1>4. ASSUME NEW p \in Procs, ProcStep(p) PROVE IInv'
    BY <1>1, <1>2, <1>4, UpdateSteps, CreateSteps, EndSteps, DeleteSteps DEF ProcStep
  <1>5. ASSUME NEW p \in Workers, ArrivesAt(p) PROVE IInv'
    BY <1>1, <1>2, <1>5, ArrivalSteps DEF Procs
  <1>6. CASE WatchdogEnds
    BY <1>1, <1>2, <1>6, ArrivalSteps DEF Procs
  <1>7. ASSUME NEW s \in Sessions, FinalizerStep(s) PROVE IInv'
    BY <1>1, <1>2, <1>7, FinalizerSteps
  <1> QED
    BY <1>1, <1>2, <1>3, <1>4, <1>5, <1>6, <1>7, OtherSteps DEF Next

LEMMA Invariance == Spec => []IInv
  BY InitInv, StepInv, PTL DEF Spec

\* Whatever requests, goroutines, faults and restarts do, every variable keeps
\* its type.
THEOREM TypeCorrect == Spec => []TypeOK
  <1>1. IInv => TypeOK
    BY DEF IInv
  <1> QED
    BY Invariance, <1>1, PTL

-----------------------------------------------------------------------------
(* Action properties.  They follow from the invariant and from the list of *)
(* all ways in which a status column changes.                              *)

StatusChange(s) ==
    \/ row[s] \in Reusable /\ row'[s] = "stale"
    \/ row[s] = "unborn" /\ row'[s] = "requested"
    \/ row'[s] = "deleted"
    \/ row'[s] = "ended" /\ fin[s] = "returned" /\ fin'[s] = "none"
    \/ \E p \in Procs :
         \/ Writes(p, s, {"write"}) /\ row'[s] = proc[p].req
         \/ Writes(p, s, {"writeEnding"}) /\ row'[s] = "ending"
         \/ Writes(p, s, {"markJoining"}) /\ row'[s] = "joining"
         \/ Writes(p, s, {"markFailed"}) /\ row'[s] = "failed"

\* A goroutine that moves to another location makes a step of its own.
LEMMA Moved ==
  ASSUME ProcOK, NEW p \in Procs, NEW g, Goto(p, g), g.pc # proc[p].pc
  PROVE  proc' # proc
  BY DEF Goto, ProcOK

\* A statement writes the row of its own session only.
LEMMA OwnRow ==
  ASSUME StoreOK, NEW s \in Sessions, NEW t \in Sessions, NEW status,
         Stored(t, status), row'[s] # row[s]
  PROVE  t = s /\ row'[s] = status
  BY DEF StoreOK, Stored

\* The sweep in front of a request writes stale only, over reusable statuses.
LEMMA SweepChange ==
  ASSUME StoreOK, SweepFirst, NEW s \in Sessions, row'[s] # row[s]
  PROVE  row[s] \in Reusable /\ row'[s] = "stale"
  BY DEF StoreOK, SweepFirst, SweepStale, Abandoned

\* Every change of a status column is one of StatusChange.
LEMMA RowChanges ==
  ASSUME StoreOK, ProcOK, Next, NEW s \in Sessions, row'[s] # row[s]
  PROVE  StatusChange(s)
  <1>1. \A p \in Procs : Sound(proc[p])
    BY ProcOKSound
  <1>2. ASSUME SweepFirst PROVE StatusChange(s)
    BY <1>2, SweepChange DEF StatusChange
  <1>3. ASSUME NEW p \in Procs, UpdateWrite(p) PROVE StatusChange(s)
    <2>1. Stored(proc[p].s, proc[p].req) /\ (Resume(p) \/ Return(p)) /\ proc[p].pc = "write"
      BY <1>3 DEF UpdateWrite, StatementFails, At, SetStatus, AnswerLost
    <2>2. proc[p].s = s /\ row'[s] = proc[p].req
      BY <1>1, <2>1, OwnRow DEF Sound
    <2>3. proc' # proc
      <3>1. CASE Resume(p) /\ proc[p].task = "end"
        BY <2>1, <3>1, Moved DEF Resume, On, Local
      <3>2. CASE (Resume(p) /\ proc[p].task # "end") \/ Return(p)
        BY <2>1, <3>2, Moved DEF Resume, Return, Idle, On, Local
      <3> QED
        BY <2>1, <3>1, <3>2
    <2> QED
      BY <2>1, <2>2, <2>3 DEF StatusChange, Writes
  <1>4. ASSUME NEW p \in Procs, UpdateWriteEnding(p) PROVE StatusChange(s)
    <2>1. /\ Stored(proc[p].s, "ending") /\ proc[p].pc = "writeEnding"
          /\ Goto(p, On(proc[p].s, "start")) \/ Goto(p, Idle)
      BY <1>4 DEF UpdateWriteEnding, StatementFails, At, SetStatus, AnswerLost, Return
    <2>2. proc[p].s = s /\ row'[s] = "ending"
      BY <1>1, <2>1, OwnRow DEF Sound
    <2>3. proc' # proc
      BY <2>1, Moved DEF Idle, On, Local
    <2> QED
      BY <2>1, <2>2, <2>3 DEF StatusChange, Writes
  <1>5. ASSUME NEW p \in Procs, NEW pc \in {"markJoining", "markFailed"}, NEW status,
               MarkCommand(p, pc, status)
        PROVE  Writes(p, s, {pc}) /\ row'[s] = status
    <2>1. Stored(proc[p].s, status) /\ Goto(p, Idle) /\ proc[p].pc = pc
      BY <1>5 DEF MarkCommand, StatementFails, At, Return, SetStatus
    <2>2. proc[p].s = s /\ row'[s] = status
      BY <1>1, <2>1, OwnRow DEF Sound
    <2>3. proc' # proc
      BY <2>1, Moved DEF Idle, On, Local
    <2> QED
      BY <2>1, <2>2, <2>3 DEF Writes
  <1>6. ASSUME NEW p \in Procs, CreateInserts(p) PROVE StatusChange(s)
    BY <1>6 DEF CreateInserts, StatusChange, StoreOK
  <1>7. ASSUME NEW p \in Procs, DeleteRows(p) PROVE StatusChange(s)
    BY <1>7 DEF DeleteRows, StatusChange, StoreOK
  <1>8. ASSUME NEW t \in Sessions, FinalizerStep(t) PROVE StatusChange(s)
    <2>1. /\ fin[t] = "returned" /\ fin' = [fin EXCEPT ![t] = "none"]
          /\ Stored(t, "ended")
      BY <1>8 DEF FinalizerStep, FinalizerReturns, FinalizerPersistsEnded, StatementFails,
                  SetStatus
    <2>2. t = s /\ row'[s] = "ended"
      BY <2>1, OwnRow
    <2> QED
      BY <2>1, <2>2 DEF StatusChange, StoreOK
  <1>9. ASSUME NEW p \in Procs, ProcStep(p) PROVE StatusChange(s)
    <2>1. \/ UpdateWrite(p) \/ UpdateWriteEnding(p) \/ CreateInserts(p) \/ DeleteRows(p)
          \/ MarkCommandSent(p) \/ MarkCommandFailed(p)
      BY <1>9 DEF ProcStep, UpdateRead, StartFinalization, CreateReuses, CreateFails,
                  SendJoinCommand, EndLookup, SendEndCommand, FallbackFires, DeleteCheck
    <2>2. CASE MarkCommandSent(p)
      BY <1>5, <2>2 DEF MarkCommandSent, StatusChange
    <2>3. CASE MarkCommandFailed(p)
      BY <1>5, <2>3 DEF MarkCommandFailed, StatusChange
    <2> QED
      BY <1>3, <1>4, <1>6, <1>7, <2>1, <2>2, <2>3
  <1>10. ASSUME NEW p \in Workers, ArrivesAt(p) PROVE StatusChange(s)
    BY <1>2, <1>10 DEF ArrivesAt, CreateArrives, EndArrives, DeleteArrives, ReportArrives
  <1>11. CASE CleanupStale
    BY <1>2, <1>11 DEF CleanupStale, SweepFirst
  <1>12. CASE \/ WatchdogScans \/ WatchdogEnds \/ Restart
              \/ \E t \in Sessions : \/ Heartbeat(t) \/ BotLeaves(t)
                                     \/ BecomesSilent(t) \/ BecomesOld(t)
    BY <1>12 DEF WatchdogScans, WatchdogEnds, Restart, Heartbeat, BotLeaves,
                 BecomesSilent, BecomesOld
  <1> QED
    BY <1>8, <1>9, <1>10, <1>11, <1>12 DEF Next

\* A step of the specification satisfies the three action properties.
LEMMA RevivedStep ==
  IInv /\ [Next]_vars => [\A s \in Sessions : Revived(s) => StaleWriterOf(s)]_vars
  <1> SUFFICES ASSUME IInv, Next, NEW s \in Sessions, Revived(s) PROVE StaleWriterOf(s)
    OBVIOUS
  <1>1. StoreOK /\ ProcOK
    BY IInvSplit
  <1>2. row'[s] # row[s] /\ row[s] \in Terminal /\ row'[s] \in Statuses \ Terminal
    BY DEF Revived, Exists
  <1>3. StatusChange(s)
    BY <1>1, <1>2, RowChanges
  <1>4. PICK p \in Procs :
          \/ Writes(p, s, {"write"}) /\ row'[s] = proc[p].req
          \/ Writes(p, s, {"writeEnding"})
          \/ Writes(p, s, {"markJoining"})
    BY <1>2, <1>3 DEF StatusChange, Terminal, Statuses, Reusable
  <1>5. Sound(proc[p]) /\ proc[p] \in Goroutine
    BY <1>1, ProcOKSound
  <1>6. CASE Writes(p, s, {"write"}) /\ row'[s] = proc[p].req
    <2>1. \/ proc[p].prev = "unread"
          \/ Decide(proc[p].prev, proc[p].req, proc[p].fatal) = "write"
      BY <1>5, <1>6 DEF Sound, Writes
    <2>2. proc[p].prev \notin Terminal
      BY <1>2, <1>6, <2>1 DEF Decide, SuppressedRevival, Terminal
    <2> QED
      BY <1>6, <2>2 DEF StaleWriterOf, Writes
  <1>7. CASE Writes(p, s, {"writeEnding"})
    <2>1. proc[p].prev \notin Terminal
      BY <1>5, <1>7 DEF Sound, Writes, Reusable, Terminal
    <2> QED
      BY <1>7, <2>1 DEF StaleWriterOf, Writes
  <1> QED
    BY <1>4, <1>6, <1>7 DEF StaleWriterOf

LEMMA EndedStep ==
  ASSUME Finalizer = TRUE
  PROVE  IInv /\ [Next]_vars => [\A s \in Sessions : Ended(s) => FinalizedOrLapsed(s)]_vars
  <1> SUFFICES ASSUME IInv, Next, NEW s \in Sessions, Ended(s) PROVE FinalizedOrLapsed(s)
    OBVIOUS
  <1>1. StoreOK /\ ProcOK
    BY IInvSplit
  <1>2. StatusChange(s)
    BY <1>1, RowChanges DEF Ended
  <1>3. CASE fin[s] = "returned" /\ fin'[s] = "none"
    BY <1>3 DEF FinalizedOrLapsed
  <1>4. CASE ~(fin[s] = "returned" /\ fin'[s] = "none")
    <2>1. PICK p \in Procs : Writes(p, s, {"write"}) /\ proc[p].req = "ended"
      BY <1>2, <1>4 DEF StatusChange, Ended
    <2>2. Sound(proc[p]) /\ proc[p] \in Goroutine
      BY <1>1, ProcOKSound
    <2>3. \/ proc[p].prev = "unread"
          \/ Decide(proc[p].prev, "ended", proc[p].fatal) = "write"
      BY <2>1, <2>2 DEF Sound, Writes
    <2>4. proc[p].prev \in Statuses \cup {"unread"} /\ proc[p].fatal \in BOOLEAN
      BY <2>1, <2>2 DEF Goroutine, Sound, Writes
    <2>5. "ended" \in Statuses
      BY DEF Statuses, Terminal
    <2>6. proc[p].prev \in {"failed", "stale", "unread"}
      BY <2>3, <2>4, <2>5, DecideAnswers
    <2> QED
      BY <2>1, <2>6 DEF FinalizedOrLapsed
  <1> QED
    BY <1>3, <1>4

LEMMA FailedStep ==
  IInv /\ [Next]_vars => [\A s \in Sessions : Failed(s) => FatalOrStaleFailure(s)]_vars
  <1> SUFFICES ASSUME IInv, Next, NEW s \in Sessions, Failed(s) PROVE FatalOrStaleFailure(s)
    OBVIOUS
  <1>1. StoreOK /\ ProcOK
    BY IInvSplit
  <1>2. row[s] # "failed"
    BY DEF Failed, JoinedOrBeyond
  <1>3. StatusChange(s)
    BY <1>1, <1>2, RowChanges DEF Failed
  <1>4. PICK p \in Procs : \/ Writes(p, s, {"write"}) /\ proc[p].req = "failed"
                           \/ Writes(p, s, {"markFailed"})
    BY <1>3 DEF StatusChange, Failed
  <1>5. CASE Writes(p, s, {"write"}) /\ proc[p].req = "failed"
    <2>1. Sound(proc[p])
      BY <1>1, ProcOKSound
    <2>2. proc[p].fatal \/ proc[p].prev \notin JoinedOrBeyond
      BY <1>5, <2>1 DEF Sound, Writes, Decide, SuppressedFailure, JoinedOrBeyond
    <2> QED
      BY <1>5, <2>2 DEF FatalOrStaleFailure
  <1> QED
    BY <1>4, <1>5 DEF FatalOrStaleFailure

\* A session comes to life by the insert of create only.
LEMMA UnbornIsInserted ==
  ASSUME StoreOK, ProcOK, Next, NEW s \in Sessions,
         row[s] = "unborn", row'[s] \notin {"unborn", "deleted"}
  PROVE  \E p \in Procs : CreateInserts(p)
  <1>1. ASSUME NEW t, NEW status, Stored(t, status) PROVE row'[s] = row[s]
    BY <1>1 DEF Stored, Exists, StoreOK, Statuses, Reusable, Terminal
  <1>2. ASSUME SweepFirst PROVE row'[s] = row[s]
    BY <1>2, SweepChange DEF Reusable
  <1>3. ASSUME NEW p \in Procs, ProcStep(p), ~CreateInserts(p)
        PROVE  row'[s] = row[s] \/ row'[s] = "deleted"
    BY <1>1, <1>3 DEF ProcStep, UpdateRead, UpdateWrite, UpdateWriteEnding, StartFinalization,
       CreateReuses, CreateFails, SendJoinCommand, MarkCommandSent, MarkCommandFailed,
       MarkCommand, EndLookup, SendEndCommand, FallbackFires, DeleteCheck, DeleteRows,
       StatementFails, SetStatus, AnswerLost, StoreOK
  <1>4. ASSUME NEW p \in Workers, ArrivesAt(p) PROVE row'[s] = row[s]
    BY <1>2, <1>4 DEF ArrivesAt, CreateArrives, EndArrives, DeleteArrives, ReportArrives
  <1>5. ASSUME NEW t \in Sessions, FinalizerStep(t) PROVE row'[s] = row[s]
    BY <1>1, <1>5 DEF FinalizerStep, FinalizerReturns, FinalizerPersistsEnded, StatementFails,
                      SetStatus
  <1>6. ASSUME \/ WatchdogScans \/ WatchdogEnds \/ CleanupStale \/ Restart
               \/ \E t \in Sessions : \/ Heartbeat(t) \/ BotLeaves(t)
                                      \/ BecomesSilent(t) \/ BecomesOld(t)
        PROVE  row'[s] = row[s]
    BY <1>2, <1>6 DEF WatchdogScans, WatchdogEnds, CleanupStale, SweepFirst, Restart, Heartbeat,
                      BotLeaves, BecomesSilent, BecomesOld
  <1> QED
    BY <1>3, <1>4, <1>5, <1>6 DEF Next

\* For any number of requests, faults and restarts: a session that is over is
\* opened again only by a write whose request read it before, or by create.
THEOREM RevivalIsStale == Spec => RevivedOnlyByStaleWriter
  BY Invariance, RevivedStep, PTL DEF Spec, RevivedOnlyByStaleWriter

\* With an ended observer registered, as server.go does, a session ends through
\* its finalization or because its request saw it failed, stale or not at all.
THEOREM EndedIsFinalized == ASSUME Finalizer = TRUE PROVE Spec => EndedByFinalizerOrLapsed
  BY Invariance, EndedStep, PTL DEF Spec, EndedByFinalizerOrLapsed

\* For any number of requests, faults and restarts: a soft failure takes no
\* session out of a joined call, except on a stale read or from create.
THEOREM SoftFailureIsSuppressed == Spec => JoinedSurvivesSoftFailure
  BY Invariance, FailedStep, PTL DEF Spec, JoinedSurvivesSoftFailure

-----------------------------------------------------------------------------
(* An ending session is not forgotten.                                     *)

\* The goroutine that moves is the one whose work on s is lost.
LEMMA MoverEnded ==
  ASSUME ProcOK, NEW p \in Procs, NEW g, Goto(p, g), NEW s \in Sessions,
         fin'[s] \in {fin[s], "running"}, ~BeingEnded(s)'
  PROVE  ~Ends(g, s) /\ (BeingEnded(s) => Ends(proc[p], s))
  <1>1. proc'[p] = g /\ \A q \in Procs : q # p => proc'[q] = proc[q]
    BY DEF Goto, ProcOK
  <1>2. fin'[s] = "none" /\ \A q \in Procs : ~Ends(proc'[q], s)
    BY DEF BeingEnded
  <1> QED
    BY <1>1, <1>2 DEF BeingEnded

\* A session enters ending through an update of its status only.
LEMMA NewlyEnding ==
  ASSUME StoreOK, ProcOK, Next, NEW s \in Sessions, row[s] # "ending", row'[s] = "ending"
  PROVE  \E p \in Procs : UpdateWrite(p) \/ UpdateWriteEnding(p)
  <1>1. ASSUME NEW t \in Sessions, NEW status, Stored(t, status), status # "ending"
        PROVE  FALSE
    BY <1>1, OwnRow
  <1>2. ASSUME SweepFirst PROVE FALSE
    BY <1>2, SweepChange
  <1>3. \A p \in Procs : proc[p].pc \notin {"idle", "insert"} => proc[p].s \in Sessions
    BY ProcOKSound DEF Sound
  <1>4. ASSUME NEW p \in Procs, MarkCommandSent(p) \/ MarkCommandFailed(p) PROVE FALSE
    BY <1>1, <1>3, <1>4 DEF MarkCommandSent, MarkCommandFailed, MarkCommand, At, SetStatus,
                            StatementFails
  <1>5. ASSUME NEW p \in Procs, CreateInserts(p) \/ DeleteRows(p) PROVE FALSE
    BY <1>5 DEF CreateInserts, DeleteRows, StoreOK
  <1>6. ASSUME NEW p \in Procs, ProcStep(p) PROVE UpdateWrite(p) \/ UpdateWriteEnding(p)
    BY <1>4, <1>5, <1>6 DEF ProcStep, UpdateRead, StartFinalization, CreateReuses, CreateFails,
                            SendJoinCommand, EndLookup, SendEndCommand, FallbackFires, DeleteCheck
  <1>7. ASSUME NEW p \in Workers, ArrivesAt(p) PROVE FALSE
    BY <1>2, <1>7 DEF ArrivesAt, CreateArrives, EndArrives, DeleteArrives, ReportArrives
  <1>8. ASSUME NEW t \in Sessions, FinalizerStep(t) PROVE FALSE
    BY <1>1, <1>8 DEF FinalizerStep, FinalizerReturns, FinalizerPersistsEnded, SetStatus,
                      StatementFails
  <1>9. ASSUME \/ WatchdogScans \/ WatchdogEnds \/ CleanupStale \/ Restart
               \/ \E t \in Sessions : \/ Heartbeat(t) \/ BotLeaves(t)
                                      \/ BecomesSilent(t) \/ BecomesOld(t)
        PROVE  FALSE
    BY <1>2, <1>9 DEF WatchdogScans, WatchdogEnds, CleanupStale, SweepFirst, Restart, Heartbeat,
                      BotLeaves, BecomesSilent, BecomesOld
  <1> QED
    BY <1>6, <1>7, <1>8, <1>9 DEF Next

\* What the updates leave behind on an ending session.
LEMMA UpdatesGoOn ==
  ASSUME StoreOK, ProcOK, BotControl, NEW s \in Sessions, NEW p \in Procs,
         UpdateRead(p) \/ UpdateWrite(p) \/ UpdateWriteEnding(p) \/ StartFinalization(p),
         Forgotten(s), faults' = faults
  PROVE  Writes(p, s, {"write"}) /\ proc[p].task = "report" /\ proc[p].req = "ending"
  <1> DEFINE g == proc[p]
  <1>1. Sound(g) /\ g \in Goroutine /\ faults \in Nat
    BY ProcOKSound, ConstantsAssumption DEF StoreOK
  <1>2. /\ row'[s] = "ending" /\ ~BeingEnded(s)' /\ "ending" \in Statuses
        /\ row[s] # "ending" \/ BeingEnded(s)
    BY DEF Forgotten, Statuses
  <1>3. ~Fault
    BY <1>1 DEF Fault
  <1>4. ASSUME NEW h, Goto(p, h), UNCHANGED fin
        PROVE  ~Ends(h, s) /\ (BeingEnded(s) => Ends(g, s))
    BY <1>2, <1>4, MoverEnded
  <1>5. Ends(On(s, "start"), s) /\ Ends(On(s, "command"), s)
    BY DEF Ends, On, Local
  <1>6. CASE UpdateRead(p)
    <2>1. UNCHANGED <<row, fin>> /\ row[s] = "ending" /\ BeingEnded(s) /\ Exists(s)
      BY <1>2, <1>6 DEF UpdateRead, Exists
    <2>2. PICK h : Goto(p, h)
      BY <1>6 DEF UpdateRead, Resume
    <2>3. g.s = s /\ g.pc = "read" /\ (g.req = "ended" \/ g.task = "end")
      BY <1>4, <1>6, <2>1, <2>2 DEF Ends, UpdateRead, At
    <2>4. CASE Decide(row[s], g.req, g.fatal) = "return" /\ Resume(p)
      <3>1. g.req # "ended"
        BY <2>1, <2>4 DEF Decide, SuppressedFailure, SuppressedRevival, Terminal
      <3>2. Goto(p, On(s, "command"))
        BY <2>3, <2>4, <3>1 DEF Resume
      <3> QED
        BY <1>4, <1>5, <2>1, <3>2
    <2>5. CASE Decide(row[s], g.req, g.fatal) # "return" /\ Goto(p, Decided(g, row[s]))
      <3>1. Decide(row[s], g.req, g.fatal) \in {"start", "writeEnding", "write"}
        BY <2>5 DEF Decide
      <3>2. Ends(Decided(g, row[s]), s)
        BY <1>5, <2>3, <3>1 DEF Decided, Ends, Local
      <3> QED
        BY <1>4, <2>1, <2>5, <3>2
    <2> QED
      BY <1>3, <1>6, <2>1, <2>3, <2>4, <2>5 DEF UpdateRead
  <1>7. CASE UpdateWrite(p)
    <2>1. g.pc = "write" /\ g.s \in Sessions /\ UNCHANGED fin
      BY <1>1, <1>7 DEF UpdateWrite, At, Sound
    <2>2. CASE Stored(g.s, g.req) /\ Resume(p)
      <3>1. PICK h : Goto(p, h)
        BY <2>2 DEF Resume
      <3>2. g.s = s
        BY <1>2, <1>4, <2>1, <2>2, <3>1, OwnRow DEF Ends
      <3>3. g.req = "ending"
        BY <1>2, <2>2, <3>2 DEF Stored, StoreOK
      <3>4. g.task # "end"
        BY <1>4, <1>5, <2>1, <2>2, <3>2 DEF Resume
      <3>5. proc' # proc
        BY <2>1, <2>2, <3>4, Moved DEF Resume, Idle, On, Local
      <3> QED
        BY <1>1, <2>1, <3>2, <3>3, <3>4, <3>5 DEF Writes, Goroutine
    <2>3. CASE StatementFails(g.s) /\ Return(p)
      <3>1. row[s] = "ending" /\ BeingEnded(s) /\ ~Exists(g.s)
        BY <1>2, <1>3, <2>3 DEF StatementFails
      <3>2. g.s = s
        BY <1>4, <2>1, <2>3, <3>1 DEF Return, Ends
      <3> QED
        BY <1>2, <3>1, <3>2 DEF Exists
    <2> QED
      BY <1>3, <1>7, <2>2, <2>3 DEF UpdateWrite, SetStatus, AnswerLost
  <1>8. CASE UpdateWriteEnding(p)
    <2>1. g.pc = "writeEnding" /\ g.s \in Sessions /\ UNCHANGED fin
      BY <1>1, <1>8 DEF UpdateWriteEnding, At, Sound
    <2>2. CASE Stored(g.s, "ending") /\ Goto(p, On(g.s, "start"))
      <3>1. g.s = s
        BY <1>2, <1>4, <2>1, <2>2, OwnRow DEF Ends
      <3> QED
        BY <1>4, <1>5, <2>1, <2>2, <3>1
    <2>3. CASE StatementFails(g.s) /\ Return(p)
      <3>1. row[s] = "ending" /\ BeingEnded(s) /\ ~Exists(g.s)
        BY <1>2, <1>3, <2>3 DEF StatementFails
      <3>2. g.s = s
        BY <1>4, <2>1, <2>3, <3>1 DEF Return, Ends
      <3> QED
        BY <1>2, <3>1, <3>2 DEF Exists
    <2> QED
      BY <1>3, <1>8, <2>2, <2>3 DEF UpdateWriteEnding, SetStatus, AnswerLost
  <1>9. CASE StartFinalization(p)
    <2>1. /\ g.pc = "start" /\ g.s \in Sessions /\ UNCHANGED row /\ Return(p)
          /\ fin' = [fin EXCEPT ![g.s] = IF @ = "none" THEN "running" ELSE @]
      BY <1>1, <1>9 DEF StartFinalization, At, Sound
    <2>2. fin'[s] \in {fin[s], "running"} /\ BeingEnded(s)
      BY <1>2, <2>1 DEF StoreOK
    <2>3. g.s = s
      BY <1>2, <2>1, <2>2, MoverEnded DEF Return, Ends
    <2>4. fin'[s] # "none"
      BY <2>1, <2>3 DEF StoreOK
    <2> QED
      BY <1>2, <2>4 DEF BeingEnded
  <1> QED
    BY <1>6, <1>7, <1>8, <1>9

\* The end request and its timer go on while the session is ending.
LEMMA EndGoesOn ==
  ASSUME StoreOK, ProcOK, BotControl, NEW s \in Sessions, NEW p \in Procs,
         SendEndCommand(p) \/ FallbackFires(p),
         row[s] = "ending", BeingEnded(s), ~BeingEnded(s)', faults' = faults
  PROVE  FALSE
  <1>1. UNCHANGED fin /\ ~Fault
    <2>1. faults \in Nat
      BY ConstantsAssumption DEF StoreOK
    <2>2. ~Fault
      BY <2>1 DEF Fault
    <2> QED
      BY <2>2 DEF SendEndCommand, FallbackFires
  <1>2. ASSUME NEW h, Goto(p, h) PROVE ~Ends(h, s) /\ proc[p].s = s
    BY <1>1, <1>2, MoverEnded DEF Ends
  <1>3. /\ Ends(On(s, "fallback"), s)
        /\ \A task : Ends(Update(s, "ended", FALSE, task), s)
    BY DEF Ends, On, Update, Local
  <1>4. CASE SendEndCommand(p)
    <2>1. \/ Goto(p, On(proc[p].s, "fallback"))
          \/ Goto(p, Update(proc[p].s, "ended", FALSE, "report"))
      BY <1>4 DEF SendEndCommand
    <2> QED
      BY <1>2, <1>3, <2>1
  <1>5. CASE FallbackFires(p)
    <2>1. Goto(p, IF row[proc[p].s] = "ending"
                  THEN Update(proc[p].s, "ended", FALSE, "report") ELSE Idle)
      BY <1>1, <1>5 DEF FallbackFires
    <2>2. proc[p].s = s
      BY <1>2, <2>1
    <2> QED
      BY <1>2, <1>3, <2>1, <2>2
  <1> QED
    BY <1>4, <1>5

LEMMA NotForgottenStep ==
  IInv /\ [Next]_vars =>
    [\A s \in Sessions : Forgotten(s) =>
         \/ faults' # faults \/ crashes' # crashes
         \/ ~BotControl
         \/ \E p \in Procs : /\ Writes(p, s, {"write"}) /\ proc[p].task = "report"
                             /\ proc[p].req = "ending"]_vars
  <1> SUFFICES ASSUME IInv, Next, NEW s \in Sessions, Forgotten(s),
                      faults' = faults, crashes' = crashes, BotControl
               PROVE  \E p \in Procs : /\ Writes(p, s, {"write"}) /\ proc[p].task = "report"
                                       /\ proc[p].req = "ending"
    OBVIOUS
  <1>1. StoreOK /\ ProcOK /\ crashes \in Nat
    BY IInvSplit, ConstantsAssumption DEF StoreOK
  <1>2. row'[s] = "ending" /\ ~BeingEnded(s)'
    BY DEF Forgotten
  <1>3. CASE \E p \in Procs : UpdateRead(p) \/ UpdateWrite(p) \/ UpdateWriteEnding(p)
                              \/ StartFinalization(p)
    BY <1>1, <1>3, UpdatesGoOn
  <1>4. CASE ~\E p \in Procs : UpdateRead(p) \/ UpdateWrite(p) \/ UpdateWriteEnding(p)
                               \/ StartFinalization(p)
    <2>1. row[s] = "ending" /\ BeingEnded(s)
      BY <1>1, <1>2, <1>4, NewlyEnding DEF Forgotten
    <2>2. ASSUME NEW p \in Procs, NEW h, Goto(p, h), UNCHANGED fin
          PROVE  Ends(proc[p], s)
      BY <1>1, <1>2, <2>1, <2>2, MoverEnded
    <2>3. ASSUME NEW p \in Procs, ProcStep(p) PROVE FALSE
      <3>1. CASE SendEndCommand(p) \/ FallbackFires(p)
        BY <1>1, <1>2, <2>1, <3>1, EndGoesOn
      <3>2. CASE ~(SendEndCommand(p) \/ FallbackFires(p))
        <4>1. /\ proc[p].pc \in {"insert", "join", "markJoining", "markFailed", "lookup",
                                 "check", "remove"}
              /\ UNCHANGED fin /\ \E h : Goto(p, h)
          BY <1>4, <2>3, <3>2 DEF ProcStep, CreateReuses, CreateInserts, CreateFails,
             SendJoinCommand, MarkCommandSent, MarkCommandFailed, MarkCommand, EndLookup,
             DeleteCheck, DeleteRows, At, Return
        <4> QED
          BY <2>2, <4>1 DEF Ends
      <3> QED
        BY <3>1, <3>2
    <2>4. ASSUME NEW p \in Workers, ArrivesAt(p) PROVE FALSE
      <3>1. At(p, "idle") /\ UNCHANGED fin /\ (\E h : Goto(p, h)) /\ p \in Procs
        BY <2>4 DEF ArrivesAt, CreateArrives, EndArrives, DeleteArrives, ReportArrives, Procs
      <3> QED
        BY <2>2, <3>1 DEF Ends, At
    <2>5. CASE WatchdogEnds
      <3>1. At(Watchdog, "idle") /\ UNCHANGED fin /\ (\E h : Goto(Watchdog, h))
            /\ Watchdog \in Procs
        BY <2>5 DEF WatchdogEnds, Procs
      <3> QED
        BY <2>2, <3>1 DEF Ends, At
    <2>6. ASSUME NEW t \in Sessions, FinalizerStep(t) PROVE FALSE
      <3>1. CASE FinalizerReturns(t)
        BY <1>1, <1>2, <2>1, <3>1 DEF FinalizerReturns, BeingEnded, StoreOK
      <3>2. CASE FinalizerPersistsEnded(t) /\ t = s
        BY <1>1, <1>2, <2>1, <3>2, ConstantsAssumption
           DEF FinalizerPersistsEnded, SetStatus, Stored, StatementFails, Fault, Exists, StoreOK,
               Statuses
      <3>3. CASE FinalizerPersistsEnded(t) /\ t # s
        BY <1>1, <1>2, <2>1, <3>3 DEF FinalizerPersistsEnded, BeingEnded, StoreOK
      <3> QED
        BY <2>6, <3>1, <3>2, <3>3 DEF FinalizerStep
    <2>7. ASSUME UNCHANGED <<proc, fin>> PROVE FALSE
      BY <1>2, <2>1, <2>7 DEF BeingEnded
    <2>8. ~Restart
      BY <1>1 DEF Restart
    <2>9. ASSUME NEW t \in Sessions,
                 Heartbeat(t) \/ BotLeaves(t) \/ BecomesSilent(t) \/ BecomesOld(t)
          PROVE  FALSE
      BY <2>7, <2>9 DEF Heartbeat, BotLeaves, BecomesSilent, BecomesOld
    <2>10. CASE WatchdogScans \/ CleanupStale
      BY <2>7, <2>10 DEF WatchdogScans, CleanupStale
    <2> QED
      BY <2>3, <2>4, <2>5, <2>6, <2>8, <2>9, <2>10 DEF Next
  <1> QED
    BY <1>3, <1>4

\* For any number of requests, reports, faults and restarts: a session loses the
\* last one at work to end it only by a failing statement or a restart.
THEOREM EndingIsRemembered == Spec => EndingIsNotForgotten
  BY Invariance, NotForgottenStep, PTL DEF Spec, EndingIsNotForgotten

-----------------------------------------------------------------------------
(* Of two open sessions one has a bot.                                     *)

\* Who is about to open the session s again, or to say that its bot joins, was
\* caused by a bot of s.
Backed(g, b) ==
    \/ g.pc \in {"read", "write"} /\ g.req \in Reusable
    \/ g.pc = "markJoining"
    => b[g.s] # "none"

Caused == \A p \in Procs : Backed(proc[p], bot)

\* A bot that was started stays one that was started.
LEMMA BotsStay ==
  ASSUME StoreOK, ProcOK, Next
  PROVE  \A s \in Sessions : bot[s] # "none" => bot'[s] # "none"
  <1>1. ASSUME NEW p \in Procs, SendJoinCommand(p)
        PROVE  \A s \in Sessions : bot[s] # "none" => bot'[s] # "none"
    BY <1>1 DEF SendJoinCommand, StoreOK
  <1>2. ASSUME NEW t \in Sessions, BotLeaves(t)
        PROVE  \A s \in Sessions : bot[s] # "none" => bot'[s] # "none"
    BY <1>2 DEF BotLeaves, StoreOK
  <1>3. \/ UNCHANGED bot
        \/ \E p \in Procs : SendJoinCommand(p)
        \/ \E t \in Sessions : BotLeaves(t)
    BY DEF Next, ArrivesAt, CreateArrives, EndArrives, DeleteArrives, ReportArrives,
           ProcStep, UpdateRead, UpdateWrite, UpdateWriteEnding, StartFinalization,
           CreateReuses, CreateInserts, CreateFails, MarkCommandSent,
           MarkCommandFailed, MarkCommand, EndLookup, SendEndCommand,
           FallbackFires, DeleteCheck, DeleteRows, FinalizerStep, FinalizerReturns,
           FinalizerPersistsEnded, WatchdogScans, WatchdogEnds, CleanupStale, Heartbeat,
           BecomesSilent, BecomesOld, Restart
  <1> QED
    BY <1>1, <1>2, <1>3

\* A goroutine that moves to a caused place.
LEMMA GotoCaused ==
  ASSUME StoreOK, ProcOK, Next, Caused, NEW p \in Procs, NEW g, Goto(p, g), Backed(g, bot')
  PROVE  Caused'
  <1> SUFFICES ASSUME NEW q \in Procs PROVE Backed(proc'[q], bot')
    BY DEF Caused
  <1>1. CASE q = p
    BY <1>1 DEF Goto, ProcOK
  <1>2. CASE q # p
    <2>1. proc'[q] = proc[q] /\ Backed(proc[q], bot)
      BY <1>2 DEF Goto, ProcOK, Caused
    <2>2. Sound(proc[q]) /\ proc[q] \in Goroutine
      BY ProcOKSound
    <2> QED
      BY <2>1, <2>2, BotsStay DEF Backed, Sound
  <1> QED
    BY <1>1, <1>2

\* Every step keeps the goroutines caused.
LEMMA CausedStep ==
  ASSUME StoreOK, ProcOK, Next, Caused
  PROVE  Caused'
  <1>1. \A p \in Procs : Sound(proc[p]) /\ proc[p] \in Goroutine /\ Backed(proc[p], bot)
    BY ProcOKSound DEF Caused
  <1>2. ASSUME NEW p \in Procs, NEW s, NEW pc \in PCs \ {"read", "write", "markJoining"},
               Goto(p, On(s, pc)) \/ Return(p)
        PROVE  Caused'
    <2>1. Backed(On(s, pc), bot') /\ Backed(Idle, bot')
      BY DEF Backed, On, Idle, Local
    <2> QED
      BY <1>2, <2>1, GotoCaused DEF Return
  <1>3. ASSUME NEW p \in Procs, Return(p) PROVE Caused'
    BY <1>2, <1>3 DEF PCs
  <1>4. ASSUME NEW p \in Procs, NEW s, NEW req \in {"ending", "ended"}, NEW fatal, NEW task,
               Goto(p, Update(s, req, fatal, task))
        PROVE  Caused'
    <2>1. Backed(Update(s, req, fatal, task), bot')
      BY DEF Backed, Update, Local, Reusable
    <2> QED
      BY <1>4, <2>1, GotoCaused
  <1>5. ASSUME NEW p \in Procs, Resume(p) PROVE Caused'
    BY <1>2, <1>5 DEF Resume, Return, PCs
  <1>6. ASSUME NEW p \in Procs, UpdateRead(p) PROVE Caused'
    <2>1. proc[p].pc = "read" /\ proc[p].s \in Sessions
      BY <1>1, <1>6 DEF UpdateRead, At, Sound
    <2>2. proc[p].req \in Reusable => bot'[proc[p].s] # "none"
      BY <1>1, <2>1, BotsStay DEF Backed
    <2>3. ASSUME NEW prev, Goto(p, Decided(proc[p], prev)) PROVE Caused'
      <3>1. Backed(Decided(proc[p], prev), bot')
        <4>1. CASE Decide(prev, proc[p].req, proc[p].fatal) = "start"
          BY <4>1 DEF Decided, Backed, On, Local
        <4>2. CASE Decide(prev, proc[p].req, proc[p].fatal) # "start"
          <5>1. Decide(prev, proc[p].req, proc[p].fatal) # "markJoining"
            BY DEF Decide
          <5> QED
            BY <2>2, <4>2, <5>1 DEF Decided, Backed, Local
        <4> QED
          BY <4>1, <4>2
      <3> QED
        BY <2>3, <3>1, GotoCaused
    <2>4. ASSUME Goto(p, Local("write", proc[p].s, proc[p].req, proc[p].fatal, "unread",
                               proc[p].task))
          PROVE  Caused'
      <3>1. Backed(Local("write", proc[p].s, proc[p].req, proc[p].fatal, "unread",
                         proc[p].task), bot')
        BY <2>2 DEF Backed, Local
      <3> QED
        BY <2>4, <3>1, GotoCaused
    <2> QED
      BY <1>5, <1>6, <2>3, <2>4 DEF UpdateRead
  <1>7. ASSUME NEW p \in Procs, SendJoinCommand(p) PROVE Caused'
    <2>1. proc[p].s \in Sessions
      BY <1>1, <1>7 DEF SendJoinCommand, At, Sound
    <2>2. CASE Goto(p, On(proc[p].s, "markJoining")) /\ bot' = [bot EXCEPT ![proc[p].s] = "live"]
      <3>1. Backed(On(proc[p].s, "markJoining"), bot')
        BY <2>1, <2>2 DEF Backed, On, Local, StoreOK
      <3> QED
        BY <2>2, <3>1, GotoCaused
    <2> QED
      BY <1>2, <1>7, <2>2 DEF SendJoinCommand, PCs
  <1>8. ASSUME NEW p \in Procs, ProcStep(p) PROVE Caused'
    <2>1. CASE UpdateWrite(p) \/ UpdateWriteEnding(p) \/ StartFinalization(p)
      BY <1>2, <1>5, <2>1 DEF UpdateWrite, UpdateWriteEnding, StartFinalization, PCs
    <2>2. CASE \/ CreateReuses(p) \/ CreateInserts(p) \/ CreateFails(p)
               \/ MarkCommandSent(p) \/ MarkCommandFailed(p) \/ DeleteCheck(p) \/ DeleteRows(p)
      BY <1>2, <2>2 DEF CreateReuses, CreateInserts, CreateFails, MarkCommandSent,
                        MarkCommandFailed, MarkCommand, DeleteCheck, DeleteRows, Return, PCs
    <2>3. CASE EndLookup(p)
      BY <1>2, <1>4, <1>3, <2>3 DEF EndLookup, PCs
    <2>4. CASE SendEndCommand(p)
      BY <1>2, <1>4, <1>3, <2>4 DEF SendEndCommand, PCs
    <2>5. CASE FallbackFires(p)
      <3>1. CASE Return(p)
        BY <1>3, <3>1
      <3>2. CASE Goto(p, Update(proc[p].s, "ended", FALSE, "report"))
        BY <1>4, <3>2
      <3> QED
        BY <2>5, <3>1, <3>2 DEF FallbackFires, Return
    <2> QED
      BY <1>6, <1>7, <1>8, <2>1, <2>2, <2>3, <2>4, <2>5 DEF ProcStep
  <1>9. ASSUME NEW p \in Workers, ArrivesAt(p) PROVE Caused'
    <2>1. ASSUME NEW s \in Sessions, NEW req, NEW fatal, ReportArrives(p, s, req, fatal)
          PROVE  Caused'
      <3>1. Goto(p, Update(s, req, fatal, "report")) /\ bot'[s] # "none" /\ p \in Procs
        BY <2>1 DEF ReportArrives, Procs
      <3>2. Backed(Update(s, req, fatal, "report"), bot')
        BY <3>1 DEF Backed, Update, Local
      <3> QED
        BY <3>1, <3>2, GotoCaused
    <2> QED
      BY <1>2, <1>9, <2>1 DEF ArrivesAt, CreateArrives, EndArrives, DeleteArrives, Procs, PCs
  <1>10. CASE WatchdogEnds
    BY <1>4, <1>10 DEF WatchdogEnds, Procs
  <1>11. CASE Restart
    BY <1>11 DEF Restart, Caused, Backed, Idle, On, Local
  <1>12. ASSUME \/ WatchdogScans \/ CleanupStale
                \/ \E t \in Sessions : \/ FinalizerStep(t) \/ Heartbeat(t) \/ BotLeaves(t)
                                       \/ BecomesSilent(t) \/ BecomesOld(t)
         PROVE  Caused'
    <2>1. UNCHANGED proc
      BY <1>12 DEF WatchdogScans, CleanupStale, FinalizerStep, FinalizerReturns,
                   FinalizerPersistsEnded, Heartbeat, BotLeaves, BecomesSilent, BecomesOld
    <2> QED
      BY <1>1, <2>1, BotsStay DEF Caused, Backed, Sound
  <1> QED
    BY <1>8, <1>9, <1>10, <1>11, <1>12 DEF Next

\* A session without a bot is open only if it was before, or was inserted now.
LEMMA OpensWithoutBot ==
  ASSUME StoreOK, ProcOK, Next, Caused, NEW s \in Sessions,
         row'[s] \in Reusable, bot'[s] = "none", row[s] \notin Reusable
  PROVE  row[s] = "unborn" /\ \E p \in Procs : CreateInserts(p)
  <1>1. StatusChange(s) /\ bot[s] = "none"
    BY RowChanges, BotsStay
  <1>2. ASSUME NEW p \in Procs, Writes(p, s, {"write"}), row'[s] = proc[p].req PROVE FALSE
    BY <1>1, <1>2 DEF Writes, Caused, Backed
  <1>3. ASSUME NEW p \in Procs, Writes(p, s, {"markJoining"}) PROVE FALSE
    BY <1>1, <1>3 DEF Writes, Caused, Backed
  <1>4. row[s] = "unborn"
    BY <1>1, <1>2, <1>3 DEF StatusChange, Reusable
  <1>5. row'[s] \notin {"unborn", "deleted"}
    BY DEF Reusable
  <1> QED
    BY <1>4, <1>5, UnbornIsInserted

\* For any number of creates, reports and late writes at once: of two open
\* sessions of a meeting one has a bot that was started for it.
THEOREM OneUncommanded == Spec => []UncommandedIsAlone
  <1> DEFINE I == IInv /\ Caused /\ UncommandedIsAlone
  <1>1. Init => I
    <2> SUFFICES ASSUME Init PROVE I
      OBVIOUS
    <2>1. Caused
      BY DEF Init, Caused, Backed, Idle, On, Local
    <2>2. UncommandedIsAlone
      BY DEF Init, UncommandedIsAlone, Reusable
    <2> QED
      BY <2>1, <2>2, InitInv
  <1>2. I /\ [Next]_vars => I'
    <2> SUFFICES ASSUME I, [Next]_vars PROVE I'
      OBVIOUS
    <2>1. CASE UNCHANGED vars
      BY <2>1, StepInv DEF vars, Caused, UncommandedIsAlone
    <2>2. CASE Next
      <3>1. StoreOK /\ ProcOK /\ IInv'
        BY <2>2, IInvSplit, StepInv
      <3>2. Caused'
        BY <2>2, <3>1, CausedStep
      <3>3. ASSUME NEW s \in Sessions, NEW t \in Sessions, s # t, row'[s] \in Reusable,
                   row'[t] \in Reusable, bot'[s] = "none", bot'[t] = "none",
                   row[s] \notin Reusable
            PROVE  FALSE
        <4>1. PICK p \in Procs : CreateInserts(p)
          BY <2>2, <3>1, <3>3, OpensWithoutBot
        <4>2. PICK u \in Sessions : row' = [row EXCEPT ![u] = "requested"]
          BY <4>1 DEF CreateInserts
        <4>3. row[t] \notin Reusable
          BY <4>1 DEF CreateInserts
        <4> QED
          BY <3>1, <3>3, <4>2, <4>3 DEF StoreOK
      <3>4. ASSUME NEW s \in Sessions, NEW t \in Sessions, s # t, row'[s] \in Reusable,
                   row'[t] \in Reusable, bot'[s] = "none", bot'[t] = "none"
            PROVE  FALSE
        <4>1. row[s] \in Reusable /\ row[t] \in Reusable
          BY <3>3, <3>4
        <4>2. bot[s] = "none" /\ bot[t] = "none"
          BY <2>2, <3>1, <3>4, BotsStay
        <4> QED
          BY <3>4, <4>1, <4>2 DEF UncommandedIsAlone
      <3>5. UncommandedIsAlone'
        BY <3>4 DEF UncommandedIsAlone
      <3> QED
        BY <3>1, <3>2, <3>5
    <2> QED
      BY <2>1, <2>2
  <1>3. I => UncommandedIsAlone
    OBVIOUS
  <1> QED
    BY <1>1, <1>2, <1>3, PTL DEF Spec

-----------------------------------------------------------------------------
(* A requested session is being joined, provided that the bot reports      *)
(* other statuses: the row then becomes requested by the insert only.      *)

NoRequestedWrite == \A p \in Procs : proc[p].req # "requested"

Joining(p, s) == proc[p].s = s /\ proc[p].pc \in {"join", "markJoining", "markFailed"}

\* What a goroutine carries to its next location.
CarriesOn(p) ==
    \/ proc'[p] = proc[p]
    \/ proc'[p].req \in {"none", "ending", "ended", proc[p].req} \cup BotReports

\* A goroutine that moves carries the status it had, or one of a new update.
LEMMA GotoCarriesOn ==
  ASSUME ProcOK, NEW p \in Procs, NEW g, Goto(p, g),
         g.req \in {"none", "ending", "ended", proc[p].req} \cup BotReports
  PROVE  \A q \in Procs : CarriesOn(q)
  BY DEF Goto, CarriesOn, ProcOK

\* No step makes up a status.
LEMMA StatusesAreCarried ==
  ASSUME ProcOK, Next
  PROVE  \A q \in Procs : CarriesOn(q)
  <1>1. CASE UNCHANGED proc
    BY <1>1 DEF CarriesOn
  <1>2. ASSUME NEW p \in Procs, NEW s, NEW pc, Goto(p, On(s, pc)) \/ Return(p)
        PROVE  \A q \in Procs : CarriesOn(q)
    <2>1. On(s, pc).req = "none" /\ Idle.req = "none"
      BY DEF On, Idle, Local
    <2> QED
      BY <1>2, <2>1, GotoCarriesOn DEF Return
  <1>3. ASSUME NEW p \in Procs, NEW s, NEW req \in {"ending", "ended"} \cup BotReports,
               NEW fatal, NEW task, Goto(p, Update(s, req, fatal, task))
        PROVE  \A q \in Procs : CarriesOn(q)
    <2>1. Update(s, req, fatal, task).req = req
      BY DEF Update, Local
    <2> QED
      BY <1>3, <2>1, GotoCarriesOn
  <1>4. ASSUME NEW p \in Procs, Resume(p) PROVE \A q \in Procs : CarriesOn(q)
    BY <1>2, <1>4 DEF Resume, Return
  <1>5. ASSUME NEW p \in Procs, UpdateRead(p) PROVE \A q \in Procs : CarriesOn(q)
    <2>1. ASSUME NEW prev, Goto(p, Decided(proc[p], prev)) PROVE \A q \in Procs : CarriesOn(q)
      <3>1. Decided(proc[p], prev).req \in {"none", proc[p].req}
        BY DEF Decided, On, Local
      <3> QED
        BY <2>1, <3>1, GotoCarriesOn
    <2>2. ASSUME Goto(p, Local("write", proc[p].s, proc[p].req, proc[p].fatal, "unread",
                               proc[p].task))
          PROVE  \A q \in Procs : CarriesOn(q)
      <3>1. Local("write", proc[p].s, proc[p].req, proc[p].fatal, "unread", proc[p].task).req
            = proc[p].req
        BY DEF Local
      <3> QED
        BY <2>2, <3>1, GotoCarriesOn
    <2> QED
      BY <1>4, <1>5, <2>1, <2>2 DEF UpdateRead
  <1>6. ASSUME NEW p \in Procs, ProcStep(p) PROVE \A q \in Procs : CarriesOn(q)
    <2>1. CASE UpdateWrite(p) \/ UpdateWriteEnding(p) \/ StartFinalization(p)
      BY <1>2, <1>4, <2>1 DEF UpdateWrite, UpdateWriteEnding, StartFinalization
    <2>2. CASE \/ CreateReuses(p) \/ CreateInserts(p) \/ CreateFails(p) \/ SendJoinCommand(p)
               \/ MarkCommandSent(p) \/ MarkCommandFailed(p)
      BY <1>2, <2>2 DEF CreateReuses, CreateInserts, CreateFails, SendJoinCommand,
                        MarkCommandSent, MarkCommandFailed, MarkCommand
    <2>3. CASE EndLookup(p)
      BY <1>2, <1>3, <2>3 DEF EndLookup
    <2>4. CASE SendEndCommand(p)
      BY <1>2, <1>3, <2>4 DEF SendEndCommand
    <2>5. CASE FallbackFires(p)
      BY <1>2, <1>3, <2>5 DEF FallbackFires, Return
    <2>6. CASE DeleteCheck(p) \/ DeleteRows(p)
      BY <1>2, <2>6 DEF DeleteCheck, DeleteRows, Return
    <2> QED
      BY <1>5, <1>6, <2>1, <2>2, <2>3, <2>4, <2>5, <2>6 DEF ProcStep
  <1>7. ASSUME NEW p \in Workers, ArrivesAt(p) PROVE \A q \in Procs : CarriesOn(q)
    BY <1>2, <1>3, <1>7 DEF ArrivesAt, CreateArrives, EndArrives, DeleteArrives, ReportArrives, Procs
  <1>8. CASE WatchdogEnds
    BY <1>3, <1>8 DEF WatchdogEnds, Procs
  <1>9. CASE Restart
    BY <1>9 DEF Restart, CarriesOn, Idle, On, Local
  <1>10. ASSUME NEW s \in Sessions,
                \/ FinalizerStep(s) \/ Heartbeat(s) \/ BotLeaves(s) \/ BecomesSilent(s)
                \/ BecomesOld(s)
         PROVE  UNCHANGED proc
    BY <1>10 DEF FinalizerStep, FinalizerReturns, FinalizerPersistsEnded, Heartbeat, BotLeaves,
                 BecomesSilent, BecomesOld
  <1>11. CASE WatchdogScans \/ CleanupStale
    BY <1>1, <1>11 DEF WatchdogScans, CleanupStale
  <1> QED
    BY <1>1, <1>6, <1>7, <1>8, <1>9, <1>10, <1>11 DEF Next

\* Faults and restarts are counted.
LEMMA TroublesStay ==
  ASSUME StoreOK, Next, faults + crashes > 0
  PROVE  faults' + crashes' > 0
  <1>1. faults \in Nat /\ crashes \in Nat
    BY ConstantsAssumption DEF StoreOK
  <1>2. faults' \in {faults, faults + 1} /\ crashes' \in {crashes, crashes + 1}
    BY DEF Next, ArrivesAt, CreateArrives, EndArrives, DeleteArrives, ReportArrives, SweepFirst,
           Fault, ProcStep, UpdateRead, UpdateWrite, UpdateWriteEnding, StartFinalization,
           CreateReuses, CreateInserts, CreateFails, SendJoinCommand, MarkCommandSent,
           MarkCommandFailed, MarkCommand, SetStatus, AnswerLost, StatementFails, EndLookup, SendEndCommand,
           FallbackFires, DeleteCheck, DeleteRows, FinalizerStep, FinalizerReturns,
           FinalizerPersistsEnded, WatchdogScans, WatchdogEnds, CleanupStale, Heartbeat,
           BotLeaves, BecomesSilent, BecomesOld, Restart
  <1>3. faults' = faults \/ faults' = faults + 1
    BY <1>2
  <1>4. crashes' = crashes \/ crashes' = crashes + 1
    BY <1>2
  <1> QED
    BY <1>1, <1>3, <1>4

\* A goroutine that joins a session keeps at it until the row leaves requested.
LEMMA JoiningGoesOn ==
  ASSUME StoreOK, ProcOK, Next, NEW s \in Sessions, NEW p \in Procs, Joining(p, s),
         row[s] = "requested", row'[s] = "requested"
  PROVE  Joining(p, s)' \/ faults' + crashes' > 0
  <1>1. faults \in Nat /\ crashes \in Nat /\ "requested" \in Statuses
    BY ConstantsAssumption DEF StoreOK, Statuses, Reusable
  <1>2. CASE proc'[p] = proc[p]
    BY <1>2 DEF Joining
  <1>3. ASSUME NEW q \in Procs, NEW g, Goto(q, g), q # p PROVE proc'[p] = proc[p]
    BY <1>3 DEF Goto, ProcOK
  <1>4. CASE SendJoinCommand(p)
    BY <1>4 DEF SendJoinCommand, Goto, Joining, On, Local, ProcOK
  <1>5. ASSUME NEW pc \in {"markJoining", "markFailed"}, NEW status \in Statuses \ {"requested"},
               MarkCommand(p, pc, status)
        PROVE  faults' + crashes' > 0
    <2>1. proc[p].s = s
      BY DEF Joining
    <2>2. CASE SetStatus(s, status)
      BY <2>2, <1>5 DEF SetStatus, Stored, StoreOK
    <2>3. CASE StatementFails(s)
      BY <1>1, <1>5, <2>3 DEF StatementFails, Exists, Fault, MarkCommand
    <2>4. SetStatus(proc[p].s, status) \/ StatementFails(proc[p].s)
      BY <1>5 DEF MarkCommand
    <2> QED
      BY <2>1, <2>2, <2>3, <2>4
  <1>6. CASE ProcStep(p)
    <2>1. SendJoinCommand(p) \/ MarkCommandSent(p) \/ MarkCommandFailed(p)
      BY <1>6 DEF ProcStep, Joining, At, UpdateRead, UpdateWrite, UpdateWriteEnding,
                  StartFinalization, CreateReuses, CreateInserts, CreateFails, EndLookup,
                  SendEndCommand, FallbackFires, DeleteCheck, DeleteRows
    <2>2. {"joining", "failed"} \subseteq Statuses \ {"requested"}
      BY DEF Statuses, Reusable, Terminal
    <2> QED
      BY <1>4, <1>5, <2>1, <2>2 DEF MarkCommandSent, MarkCommandFailed
  <1>7. ASSUME NEW q \in Procs, q # p, ProcStep(q) PROVE proc'[p] = proc[p]
    BY <1>3, <1>7 DEF ProcStep, UpdateRead, UpdateWrite, UpdateWriteEnding, StartFinalization,
       CreateReuses, CreateInserts, CreateFails, SendJoinCommand, MarkCommandSent,
       MarkCommandFailed, MarkCommand, EndLookup, SendEndCommand, FallbackFires, DeleteCheck,
       DeleteRows, Resume, Return
  <1>8. ASSUME NEW q \in Workers, ArrivesAt(q) PROVE proc'[p] = proc[p]
    BY <1>3, <1>8 DEF ArrivesAt, CreateArrives, EndArrives, DeleteArrives, ReportArrives, Procs,
                      At, Joining
  <1>9. CASE WatchdogEnds
    BY <1>3, <1>9 DEF WatchdogEnds, Procs, At, Joining
  <1>10. CASE Restart
    BY <1>1, <1>10 DEF Restart
  <1>11. ASSUME \/ WatchdogScans \/ CleanupStale
                \/ \E t \in Sessions : \/ FinalizerStep(t) \/ Heartbeat(t) \/ BotLeaves(t)
                                       \/ BecomesSilent(t) \/ BecomesOld(t)
         PROVE  UNCHANGED proc
    BY <1>11 DEF WatchdogScans, CleanupStale, FinalizerStep, FinalizerReturns,
                 FinalizerPersistsEnded, Heartbeat, BotLeaves, BecomesSilent, BecomesOld
  <1> QED
    BY <1>2, <1>6, <1>7, <1>8, <1>9, <1>10, <1>11 DEF Next

\* The row becomes requested by the insert, whose request goes on to join.
LEMMA InsertJoins ==
  ASSUME StoreOK, ProcOK, NoRequestedWrite, Next, NEW s \in Sessions,
         row[s] # "requested", row'[s] = "requested"
  PROVE  (\E p \in Procs : Joining(p, s)') \/ faults' + crashes' > 0
  <1>1. row[s] = "unborn"
    BY RowChanges DEF StatusChange, NoRequestedWrite
  <1>2. PICK p \in Procs : CreateInserts(p)
    BY <1>1, UnbornIsInserted
  <1>3. PICK t \in Sessions :
          /\ row' = [row EXCEPT ![t] = "requested"]
          /\ \/ Goto(p, On(t, "join")) /\ UNCHANGED faults
             \/ Fault /\ Return(p)
    BY <1>2 DEF CreateInserts
  <1>4. t = s
    BY <1>1, <1>3 DEF StoreOK
  <1>5. CASE Goto(p, On(s, "join"))
    BY <1>5 DEF Goto, Joining, On, Local, ProcOK
  <1>6. CASE Fault
    <2>1. faults \in Nat /\ crashes \in Nat /\ UNCHANGED crashes
      BY <1>2, ConstantsAssumption DEF CreateInserts, StoreOK
    <2> QED
      BY <1>6, <2>1 DEF Fault
  <1> QED
    BY <1>3, <1>4, <1>5, <1>6

\* A bot that exists does not report that it was requested; then a session that
\* is requested has a request at work on it, or a statement failed, or the
\* process restarted.
THEOREM RequestedIsWorkedOn ==
  ASSUME "requested" \notin BotReports PROVE Spec => []RequestedIsBeingJoined
  <1> DEFINE I == IInv /\ NoRequestedWrite /\ RequestedIsBeingJoined
  <1>1. Init => I
    <2> SUFFICES ASSUME Init PROVE I
      OBVIOUS
    <2>1. NoRequestedWrite
      BY DEF Init, NoRequestedWrite, Idle, On, Local
    <2>2. RequestedIsBeingJoined
      BY DEF Init, RequestedIsBeingJoined
    <2> QED
      BY <2>1, <2>2, InitInv
  <1>2. I /\ [Next]_vars => I'
    <2> SUFFICES ASSUME I, [Next]_vars PROVE I'
      OBVIOUS
    <2>1. CASE UNCHANGED vars
      BY <2>1, StepInv DEF vars, NoRequestedWrite, RequestedIsBeingJoined
    <2>2. CASE Next
      <3>1. StoreOK /\ ProcOK /\ IInv'
        BY <2>2, IInvSplit, StepInv
      <3>2. NoRequestedWrite'
        BY <2>2, <3>1, StatusesAreCarried DEF NoRequestedWrite, CarriesOn
      <3>3. ASSUME NEW s \in Sessions, row'[s] = "requested"
            PROVE  (\E p \in Procs : Joining(p, s)') \/ faults' + crashes' > 0
        <4>1. CASE row[s] # "requested"
          BY <2>2, <3>1, <3>3, <4>1, InsertJoins
        <4>2. CASE row[s] = "requested" /\ faults + crashes > 0
          BY <2>2, <3>1, <4>2, TroublesStay
        <4>3. CASE row[s] = "requested" /\ \E p \in Procs : Joining(p, s)
          BY <2>2, <3>1, <3>3, <4>3, JoiningGoesOn
        <4> QED
          BY <4>1, <4>2, <4>3 DEF RequestedIsBeingJoined, Joining
      <3>4. RequestedIsBeingJoined'
        BY <3>3 DEF RequestedIsBeingJoined, Joining
      <3> QED
        BY <3>1, <3>2, <3>4
    <2> QED
      BY <2>1, <2>2
  <1> QED
    BY <1>1, <1>2, PTL DEF Spec
=============================================================================
