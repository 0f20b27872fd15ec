------------------------------ MODULE MCServices ------------------------------
(***************************************************************************)
(* The services around a meeting share no state, so one run checks them    *)
(* side by side: the initial state chooses which of them runs, and the     *)
(* others keep their initial state.  The graph is the sum of theirs.       *)
(***************************************************************************)
EXTENDS TranscriptHub, SessionHealth, BotMedia, WorkspaceMembers

VARIABLE service

ReportsDef ==
    {[id |-> "s1", state |-> "stalled", at |-> 1], [id |-> "r1", state |-> "ok", at |-> 2],
     [id |-> "s2", state |-> "stalled", at |-> 2], [id |-> "", state |-> "ok", at |-> 1]}

MetricsDef ==
    {[stalled |-> FALSE, stall |-> -1, frame |-> 0, sound |-> 2, text |-> 0],
     [stalled |-> FALSE, stall |-> -1, frame |-> 0, sound |-> 0, text |-> -1]}

servicesVars == <<hubVars, healthVars, mediaVars, memberVars, service>>

ServicesInit ==
    /\ HubInit /\ HealthInit /\ MediaInit /\ MembersInit
    /\ service \in {"hub", "health", "media", "members"}

Hub(A) ==
    /\ service = "hub" /\ A
    /\ UNCHANGED <<service, healthVars, mediaVars, memberVars>>

ServicesNext ==
    \/ Hub(HubNext)
    \/ /\ service = "health" /\ HealthNext
       /\ UNCHANGED <<service, hubVars, mediaVars, memberVars>>
    \/ /\ service = "media" /\ MediaNext
       /\ UNCHANGED <<service, hubVars, healthVars, memberVars>>
    \/ /\ service = "members" /\ MembersNext
       /\ UNCHANGED <<service, hubVars, healthVars, mediaVars>>

\* HubFairness for the run that the hub is in.
ServicesFairness ==
    /\ \A p \in Publishers :
         /\ WF_servicesVars(Hub(CopyMembers(p)))
         /\ WF_servicesVars(Hub(DropOldest(p)))
         /\ WF_servicesVars(Hub(HubReturns(p)))
         /\ WF_servicesVars(Hub(\E c \in Clients : TrySend(p, c)))
         /\ SF_servicesVars(Hub(BlockingSend(p)))
    /\ \A c \in Clients :
         /\ WF_servicesVars(Hub(WriteEvent(c)))
         /\ WF_servicesVars(Hub(WriteFails(c)))
         /\ WF_servicesVars(Hub(WriterLeaves(c)))
         /\ WF_servicesVars(Hub(WriterSeesDone(c)))
         /\ WF_servicesVars(Hub(ReadOfClosedEnds(c)))
         /\ WF_servicesVars(Hub(ReaderLeaves(c)))

ServicesSpec == ServicesInit /\ [][ServicesNext]_servicesVars /\ ServicesFairness

\* Two disturbances of a session at a time: heartbeats, segments, status writes.
HealthBound == beats + segments + returns <= 2

\* The type invariants of the services.
ServicesTypeOK ==
    HubTypeOK /\ HealthTypeOK /\ MediaTypeOK /\ MembersTypeOK
=============================================================================
