------------------------ MODULE PageMigration_proofs ------------------------
(***************************************************************************)
(* Proofs about PageMigration for every number of frames, channels, queue  *)
(* entries and requests.  Every step keeps the types and the phase of the  *)
(* migration, hence the protocol invariant SwapInv, from which the safety  *)
(* properties and the refinement of the abstract page swap follow.         *)
(***************************************************************************)
EXTENDS PageMigration, FiniteSetTheorems, TLAPS

\* The prover of the leaves that do not name one.
USE ZenonT(30)

-----------------------------------------------------------------------------
\* Typing.

\* Pages are pairs, and the all-zero page is one of them.
LEMMA PageFacts ==
    /\ ZeroPage \in Pages
    /\ \A p \in Pages : p[1] \in Frames /\ p[2] \in Channels /\ p = <<p[1], p[2]>>
    /\ \A f \in Frames, c \in Channels :
          <<f, c>> \in Pages /\ <<f, c>>[1] = f /\ <<f, c>>[2] = c
    /\ PromotionChannel \in Channels
    /\ NoChannel \notin Channels
BY SMTT(30), MigrationAssumption DEF ZeroPage, Pages, Frames, Channels, NoChannel

\* Where Translate sends a page, and where the hook believes it went, is a page.
LEMMA SeenIsPage ==
    ASSUME TypeOK, NEW p \in Pages
    PROVE  Translate(p) \in Pages /\ Seen(p) \in Pages
<1>1. Translate(p) \in Pages
  BY SMTT(30), PageFacts DEF Translate, IsMigrated, TypeOK
<1> QED
  BY <1>1, PageFacts DEF Seen, Untranslated

\* The part of the state Admit changes keeps its type.
LEMMA AdmitType ==
    ASSUME TypeOK, NEW p \in Pages, Admit(p)
    PROVE  cpuQueued' \in [Channels -> Nat] /\ cpuInService' \in Nat /\ sent' \in Nat
<1>1. Translate(p)[2] \in Channels
  BY SeenIsPage, PageFacts
<1> QED
  BY SMTT(30), <1>1 DEF Admit, TypeOK

\* So does the part ChooseVictim changes, and the victim is a fast page.
LEMMA ChooseVictimType ==
    ASSUME TypeOK, NEW p \in Pages, NEW hot, ChooseVictim(p, hot)
    PROVE  /\ promotee' \in Pages /\ demotee' \in Pages
           /\ ~Fast(promotee') /\ Fast(demotee')
           /\ ~migrating /\ ~IsMigrated(promotee')
           /\ currentPromotionPage' \in Frames
           /\ DRAMPageList' = DRAMPageList /\ buffered' = buffered
           /\ Admit(p)
<1>1. promotee' = Seen(p) /\ MigrationPossible(Seen(p)) /\ Admit(p)
      /\ DRAMPageList' = DRAMPageList /\ buffered' = buffered
  BY DEF ChooseVictim
<1>2. PICK k \in Frames : demotee' = Visited(k) /\ currentPromotionPage' = Advance(k)
  BY DEF ChooseVictim
<1>3. \A n \in Nat : n % NumFrames \in Frames
  BY SMTT(30), MigrationAssumption DEF Frames
<1>4. currentPromotionPage + k \in Nat /\ currentPromotionPage + k + 1 \in Nat
  BY SMTT(30) DEF Frames, TypeOK
<1>5. Advance(k) \in Frames /\ (currentPromotionPage + k) % NumFrames \in Frames
  BY <1>3, <1>4 DEF Advance
<1>6. Visited(k) \in Pages /\ Visited(k)[2] = PromotionChannel
  BY <1>5, PageFacts DEF Visited
<1> QED
  BY <1>1, <1>2, <1>5, <1>6, SeenIsPage DEF MigrationPossible, Fast

\* TypeOK, variable group by variable group.
DecoderTypeOK ==
    /\ migrationMap \in [Pages -> Channels \cup {NoChannel}]
    /\ migrationState \in [Pages -> States]
    /\ migrating \in BOOLEAN
    /\ inputPage \in Pages /\ outputPage \in Pages

RequestTypeOK == request \in [Sides -> Requests]

BufferedTypeOK == buffered \in [Sides -> BOOLEAN]

RestTypeOK ==
    /\ promotee \in Pages /\ demotee \in Pages
    /\ currentPromotionPage \in Frames
    /\ DRAMPageList \subseteq {p \in Pages : Fast(p)}
    /\ cpuQueued \in [Channels -> Nat]
    /\ cpuInService \in Nat
    /\ sent \in Nat
    /\ failure \in {"none", "victimMigrated", "noVictim", "nullParent"}

\* The groups together are TypeOK.
LEMMA TypeGroups ==
    TypeOK <=> DecoderTypeOK /\ RequestTypeOK /\ BufferedTypeOK /\ RestTypeOK
BY DEF TypeOK, DecoderTypeOK, RequestTypeOK, BufferedTypeOK, RestTypeOK

\* The same in the next state.
LEMMA TypeGroupsPrime ==
    TypeOK' <=> DecoderTypeOK' /\ RequestTypeOK' /\ BufferedTypeOK' /\ RestTypeOK'
BY DEF TypeOK, DecoderTypeOK, RequestTypeOK, BufferedTypeOK, RestTypeOK

\* The initial state is well typed.
LEMMA InitType == Init => TypeOK
<1> SUFFICES ASSUME Init PROVE TypeOK
  OBVIOUS
<1>1. DecoderTypeOK
  BY PageFacts DEF Init, DecoderTypeOK, States
<1>2. RequestTypeOK
  BY PageFacts DEF Init, RequestTypeOK, Requests
<1>3. BufferedTypeOK
  BY Zenon DEF Init, BufferedTypeOK
<1>4. RestTypeOK
  BY SMTT(30), PageFacts, MigrationAssumption DEF Init, RestTypeOK, Frames
<1> QED
  BY <1>1, <1>2, <1>3, <1>4, TypeGroups

\* SetMigrationState keeps the decoder's types.
LEMMA SetMigrationStateType ==
    ASSUME TypeOK, NEW new \in [Pages -> States], SetMigrationState(new)
    PROVE  DecoderTypeOK'
<1>1. migrating' \in BOOLEAN
  BY Zenon DEF SetMigrationState
<1> QED
  BY <1>1 DEF SetMigrationState, TypeOK, DecoderTypeOK

\* An action that issues a processor request keeps every variable's type.
LEMMA IssueType ==
    ASSUME TypeOK, NEW p \in Pages, NEW hot \in BOOLEAN, Issue(p, hot)
    PROVE  TypeOK'
<1> USE DEF Issue
<1>0. DecoderTypeOK /\ RequestTypeOK /\ BufferedTypeOK /\ RestTypeOK
  BY TypeGroups
<1>1. CASE IssueCommand(p, hot)
  <2>1. DRAMPageList' = DRAMPageList \cup {q \in {Seen(p)} : Fast(q)}
        /\ UNCHANGED <<decoderVars, hookVars, failure>> /\ Admit(p)
    BY <1>1 DEF IssueCommand
  <2>2. DRAMPageList' \subseteq {q \in Pages : Fast(q)}
    BY SMTT(30), <2>1, SeenIsPage DEF TypeOK
  <2>3. DecoderTypeOK' /\ RequestTypeOK' /\ BufferedTypeOK'
    BY <1>0, <2>1 DEF decoderVars, hookVars, DecoderTypeOK, RequestTypeOK, BufferedTypeOK
  <2>4. RestTypeOK'
    BY <1>0, <2>1, <2>2, AdmitType DEF hookVars, RestTypeOK, Fast
  <2> QED
    BY <2>3, <2>4, TypeGroupsPrime
<1>2. ASSUME ChooseVictim(p, hot), failure' \in {"none", "victimMigrated"}
      PROVE  RestTypeOK' /\ BufferedTypeOK'
  <2>1. /\ promotee' \in Pages /\ demotee' \in Pages
        /\ currentPromotionPage' \in Frames
        /\ DRAMPageList' = DRAMPageList /\ buffered' = buffered
        /\ Admit(p)
    BY <1>2, ChooseVictimType
  <2>2. cpuQueued' \in [Channels -> Nat] /\ cpuInService' \in Nat /\ sent' \in Nat
    BY <2>1, AdmitType
  <2> QED
    BY <1>0, <1>2, <2>1, <2>2 DEF RestTypeOK, BufferedTypeOK, Fast
<1>3. CASE IssueAndMigrate(p, hot)
  <2>1. /\ ChooseVictim(p, hot) /\ StartMigration(promotee', demotee')
        /\ request' = [s \in Sides |->
                         MigrationRead(IF s = "promo" THEN promotee' ELSE demotee')]
        /\ failure' = "none"
    BY <1>3 DEF IssueAndMigrate, ChooseVictim, Admit
  <2>2. promotee' \in Pages /\ demotee' \in Pages
    BY <2>1, ChooseVictimType
  <2>3. promotee'[2] \in Channels /\ demotee'[2] \in Channels
    BY <2>2, PageFacts
  <2>4. DecoderTypeOK'
    BY <1>0, <2>1, <2>2, <2>3 DEF StartMigration, DecoderTypeOK, States
  <2>5. \A q \in Pages : MigrationRead(q) \in Requests
    BY DEF MigrationRead, Requests
  <2>6. RequestTypeOK'
    BY <2>1, <2>2, <2>5 DEF RequestTypeOK
  <2> QED
    BY <1>2, <2>1, <2>4, <2>6, TypeGroupsPrime
<1>4. CASE IssueAndWait(p, hot)
  <2>1. ChooseVictim(p, hot) /\ failure' = "none" /\ UNCHANGED <<decoderVars, request>>
    BY <1>4 DEF IssueAndWait, ChooseVictim, Admit
  <2>2. DecoderTypeOK' /\ RequestTypeOK'
    BY <1>0, <2>1 DEF decoderVars, DecoderTypeOK, RequestTypeOK
  <2> QED
    BY <1>2, <2>1, <2>2, TypeGroupsPrime
<1>5. CASE IssueAndFail(p, hot)
  <2>1. ChooseVictim(p, hot) /\ failure' = "victimMigrated"
        /\ UNCHANGED <<decoderVars, request>>
    BY <1>5 DEF IssueAndFail
  <2>2. DecoderTypeOK' /\ RequestTypeOK'
    BY <1>0, <2>1 DEF decoderVars, DecoderTypeOK, RequestTypeOK
  <2> QED
    BY <1>2, <2>1, <2>2, TypeGroupsPrime
<1>6. CASE IssueAndHang(p, hot)
  <2>1. Admit(p) /\ failure' = "noVictim"
        /\ UNCHANGED <<decoderVars, hookVars, DRAMPageList>>
    BY <1>6 DEF IssueAndHang
  <2>2. DecoderTypeOK' /\ RequestTypeOK' /\ BufferedTypeOK'
    BY <1>0, <2>1 DEF decoderVars, hookVars, DecoderTypeOK, RequestTypeOK, BufferedTypeOK
  <2>3. RestTypeOK'
    BY <1>0, <2>1, AdmitType DEF hookVars, RestTypeOK, Fast
  <2> QED
    BY <2>2, <2>3, TypeGroupsPrime
<1> QED
  BY <1>1, <1>3, <1>4, <1>5, <1>6

\* A step of the controllers or of a migration keeps every variable's type.
LEMMA ServeType ==
    ASSUME TypeOK,
           \/ \E c \in Channels : ScheduleCpu(c)
           \/ \E s \in Sides : MigrationStep(s)
           \/ Complete
    PROVE  TypeOK'
<1>0. DecoderTypeOK /\ RequestTypeOK /\ BufferedTypeOK /\ RestTypeOK
  BY TypeGroups
<1>1. ASSUME NEW c \in Channels, ScheduleCpu(c) PROVE TypeOK'
  <2>1. DecoderTypeOK' /\ RequestTypeOK' /\ BufferedTypeOK'
    BY <1>0, <1>1
       DEF ScheduleCpu, decoderVars, hookVars, DecoderTypeOK, RequestTypeOK, BufferedTypeOK
  <2>2. RestTypeOK'
    BY SMTT(30), <1>0, <1>1 DEF ScheduleCpu, hookVars, RestTypeOK, Fast
  <2> QED
    BY <2>1, <2>2, TypeGroupsPrime
<1>2. ASSUME NEW s \in Sides, MigrationStep(s) PROVE TypeOK'
  <2>0. request[s] \in Requests /\ request[s].page \in Pages
    BY <1>0 DEF RequestTypeOK, Requests
  <2>1. ASSUME UNCHANGED <<promotee, demotee, currentPromotionPage, DRAMPageList,
                           cpuQueued, cpuInService, sent, failure>>
        PROVE  RestTypeOK'
    BY <1>0, <2>1 DEF RestTypeOK, Fast
  <2>2. ASSUME NEW st \in {"none", "inService"}, request' = [request EXCEPT ![s].stage = st]
        PROVE  RequestTypeOK'
    BY <1>0, <2>0, <2>2 DEF RequestTypeOK, Requests
  <2>3. ASSUME NEW st \in States
        PROVE  [migrationState EXCEPT ![request[s].page] = st] \in [Pages -> States]
    BY <1>0, <2>0 DEF DecoderTypeOK
  <2>4. CASE ScheduleMigration(s)
    <3>1. DecoderTypeOK' /\ BufferedTypeOK'
      BY <1>0, <2>4 DEF ScheduleMigration, decoderVars, DecoderTypeOK, BufferedTypeOK
    <3> QED
      BY <2>1, <2>2, <2>4, <3>1, TypeGroupsPrime DEF ScheduleMigration, cpuVars
  <2>5. CASE FirstReadComplete(s)
    <3>1. DecoderTypeOK'
      BY <2>3, <2>5, SetMigrationStateType DEF FirstReadComplete, States
    <3>2. BufferedTypeOK'
      BY <1>0, <2>5 DEF FirstReadComplete, BufferedTypeOK
    <3> QED
      BY <2>1, <2>2, <2>5, <3>1, <3>2, TypeGroupsPrime
         DEF FirstReadComplete, Completes, cpuVars
  <2>6. CASE SecondReadComplete(s)
    <3> DEFINE target == [t \in Sides |-> request[Other(t)].page]
               issued == {t \in Sides : HasRoom(cpuQueued, target[t][2])}
               read == [migrationState EXCEPT ![request[s].page] = "BUFFERED"]
               new == [p \in Pages |->
                         IF \E t \in issued : p = target[t] THEN "WRITING" ELSE read[p]]
    <3>1. /\ Completes(s, "READ") /\ SetMigrationState(new)
          /\ request' = [t \in Sides |->
                [page |-> target[t], type |-> "WRITE",
                 stage |-> IF t \in issued THEN "queued" ELSE "none"]]
          /\ buffered' = [t \in Sides |-> t \notin issued]
      BY <2>6 DEF SecondReadComplete
    <3>2. read \in [Pages -> States]
      BY <2>3 DEF States
    <3>3. \A t \in Sides : target[t] \in Pages
      BY <1>0 DEF RequestTypeOK, Requests, Other, Sides
    <3> HIDE DEF read, issued, target
    <3>4. new \in [Pages -> States]
      BY <3>2 DEF States
    <3> HIDE DEF new
    <3>5. DecoderTypeOK'
      BY <3>1, <3>4, SetMigrationStateType
    <3>6. RequestTypeOK'
      BY <3>1, <3>3 DEF RequestTypeOK, Requests
    <3>7. BufferedTypeOK'
      BY <3>1, Zenon DEF BufferedTypeOK
    <3>8. RestTypeOK'
      BY <2>1, <3>1 DEF Completes, cpuVars
    <3> QED
      BY <3>5, <3>6, <3>7, <3>8, TypeGroupsPrime
  <2>7. CASE WriteComplete(s)
    <3>1. DecoderTypeOK'
      BY <2>3, <2>7, SetMigrationStateType DEF WriteComplete, States
    <3>2. BufferedTypeOK'
      BY <1>0, <2>7 DEF WriteComplete, BufferedTypeOK
    <3> QED
      BY <2>1, <2>2, <2>7, <3>1, <3>2, TypeGroupsPrime
         DEF WriteComplete, Completes, cpuVars
  <2> QED
    BY <1>2, <2>4, <2>5, <2>6, <2>7 DEF MigrationStep
<1>3. ASSUME Complete PROVE TypeOK'
  <2>1. CpuCompletes /\ failure' \in {failure, "nullParent"}
        /\ (UNCHANGED <<request, buffered>> \/ \E s \in Sides : TryWrite(s))
    BY <1>3 DEF Complete, CompleteAndIdle, CompleteAndRetry, CompleteAndCrash, Sides
  <2>2. DecoderTypeOK'
    BY <1>0, <2>1 DEF CpuCompletes, decoderVars, DecoderTypeOK
  <2>3. RestTypeOK'
    BY SMTT(30), <1>0, <2>1 DEF CpuCompletes, RestTypeOK, Fast
  <2>4. ASSUME NEW s \in Sides, TryWrite(s) PROVE RequestTypeOK' /\ BufferedTypeOK'
    <3>1. request[s] \in Requests
      BY <1>0 DEF RequestTypeOK
    <3>2. RequestTypeOK'
      BY <1>0, <2>4, <3>1 DEF TryWrite, RequestTypeOK, Requests
    <3>3. BufferedTypeOK'
      BY <1>0, <2>4 DEF TryWrite, BufferedTypeOK
    <3> QED
      BY <3>2, <3>3
  <2>5. RequestTypeOK' /\ BufferedTypeOK'
    BY <1>0, <2>1, <2>4 DEF RequestTypeOK, BufferedTypeOK
  <2> QED
    BY <2>2, <2>3, <2>5, TypeGroupsPrime
<1> QED
  BY <1>1, <1>2, <1>3

-----------------------------------------------------------------------------
\* The phases of a migration.

\* SwapInv without TypeOK.
Phase ==
    /\ \A p \in Pages : migrationMap[p] = NoChannel <=> migrationState[p] = "UNKNOWN"
    /\ \A p \in Pages : \/ migrationState[p] \in {"UNKNOWN", "DONE"}
                        \/ migrating /\ p \in {inputPage, outputPage}
    /\ HookAgreesWithDecoder
    /\ NothingLeftBehind
    /\ migrating => /\ migrationMap[promotee] = demotee[2]
                    /\ migrationMap[demotee] = promotee[2]
                    /\ Reading \/ Writing

\* SwapInv is TypeOK and Phase.
LEMMA SwapInvSplit == SwapInv <=> TypeOK /\ Phase
BY DEF SwapInv, Phase

\* The same in the next state.
LEMMA SwapInvSplitPrime == SwapInv' <=> TypeOK' /\ Phase'
BY DEF SwapInv, Phase

\* Steps of the processor's requests leave the phase alone.
LEMMA PhaseUnchanged ==
    ASSUME Phase, UNCHANGED <<decoderVars, promotee, demotee, request, buffered>>
    PROVE  Phase'
BY SMTT(30) DEF Phase, decoderVars, HookAgreesWithDecoder, NothingLeftBehind, Reading, Writing,
       Source, Other, InFlight, Fast

\* Between migrations promotee and demotee may take any value.
LEMMA PhaseIdle ==
    ASSUME Phase, ~migrating, UNCHANGED <<decoderVars, request, buffered>>
    PROVE  Phase'
BY DEF Phase, decoderVars, HookAgreesWithDecoder, NothingLeftBehind, InFlight

\* A migration starts in the reading phase, with both reads queued.
LEMMA PhaseStart ==
    ASSUME TypeOK, Phase, NEW p \in Pages, NEW hot, IssueAndMigrate(p, hot)
    PROVE  Phase'
<1>1. /\ ChooseVictim(p, hot) /\ CheckIssuable /\ ~IsMigrated(demotee')
      /\ StartMigration(promotee', demotee')
      /\ request' = [s \in Sides |->
                       MigrationRead(IF s = "promo" THEN promotee' ELSE demotee')]
  BY DEF IssueAndMigrate
<1>2. /\ promotee' \in Pages /\ demotee' \in Pages
      /\ ~Fast(promotee') /\ Fast(demotee')
      /\ ~migrating /\ ~IsMigrated(promotee')
      /\ buffered' = buffered
  BY <1>1, ChooseVictimType
<1>3. promotee' # demotee' /\ promotee'[2] # NoChannel /\ demotee'[2] # NoChannel
  BY <1>2, PageFacts DEF Fast
<1>4. \A q \in Pages : migrationState[q] \in {"UNKNOWN", "DONE"}
  BY <1>2 DEF Phase
<1>5. /\ migrationMap' = [migrationMap EXCEPT ![promotee'] = demotee'[2],
                                              ![demotee'] = promotee'[2]]
      /\ migrationState' = [migrationState EXCEPT ![promotee'] = "READING",
                                                  ![demotee'] = "READING"]
      /\ migrating' /\ inputPage' = promotee' /\ outputPage' = demotee'
  BY <1>1 DEF StartMigration
<1>6. \A s \in Sides : /\ request'[s].page = Source(s)' /\ request'[s].type = "READ"
                       /\ request'[s].stage = "queued"
  BY <1>1 DEF MigrationRead, CheckIssuable, Source, Sides
<1>7. \A s \in Sides : buffered'[s] = FALSE
  BY <1>2, Zenon DEF Phase, NothingLeftBehind, TypeOK
<1>8. /\ migrationState'[promotee'] = "READING" /\ migrationState'[demotee'] = "READING"
      /\ migrationMap'[promotee'] = demotee'[2] /\ migrationMap'[demotee'] = promotee'[2]
      /\ \A q \in Pages \ {promotee', demotee'} :
             migrationState'[q] = migrationState[q] /\ migrationMap'[q] = migrationMap[q]
  BY <1>2, <1>3, <1>5 DEF TypeOK
<1>9. Reading'
  BY <1>6, <1>7, <1>8 DEF Reading, InFlight, Source, Sides
<1>10. HookAgreesWithDecoder' /\ NothingLeftBehind'
  BY <1>2, <1>5 DEF HookAgreesWithDecoder, NothingLeftBehind, Fast
<1>11. \A q \in Pages : migrationMap'[q] = NoChannel <=> migrationState'[q] = "UNKNOWN"
  BY <1>3, <1>8 DEF Phase
<1>12. \A q \in Pages : \/ migrationState'[q] \in {"UNKNOWN", "DONE"}
                        \/ migrating' /\ q \in {inputPage', outputPage'}
  BY <1>4, <1>5, <1>8
<1> QED
  BY <1>8, <1>9, <1>10, <1>11, <1>12 DEF Phase

\* Issuing a processor request keeps the phase, or starts a migration.
LEMMA IssuePhase ==
    ASSUME TypeOK, Phase, NEW p \in Pages, NEW hot \in BOOLEAN, Issue(p, hot)
    PROVE  Phase'
<1>1. CASE IssueCommand(p, hot) \/ IssueAndHang(p, hot)
  BY <1>1, PhaseUnchanged DEF IssueCommand, IssueAndHang, hookVars
<1>2. CASE IssueAndWait(p, hot) \/ IssueAndFail(p, hot)
  <2>1. ChooseVictim(p, hot) /\ UNCHANGED <<decoderVars, request>>
    BY <1>2 DEF IssueAndWait, IssueAndFail
  <2> QED
    BY <2>1, ChooseVictimType, PhaseIdle
<1>3. CASE IssueAndMigrate(p, hot)
  BY <1>3, PhaseStart
<1> QED
  BY <1>1, <1>2, <1>3 DEF Issue

\* What changes when only the stage of one request does.
LEMMA StageChanged ==
    ASSUME TypeOK, NEW s \in Sides, NEW st, request' = [request EXCEPT ![s].stage = st]
    PROVE  /\ request'[s].page = request[s].page
           /\ request'[s].type = request[s].type
           /\ request'[s].stage = st
           /\ \A t \in Sides \ {s} : request'[t] = request[t]
<1> DEFINE r == request[s]
<1>1. request \in [Sides -> Requests]
  BY DEF TypeOK
<1>2. request'[s] = [request[s] EXCEPT !.stage = st] /\ request[s] \in Requests
      /\ \A t \in Sides \ {s} : request'[t] = request[t]
  BY <1>1, Zenon
<1>3. r \in Requests /\ request'[s] = [r EXCEPT !.stage = st]
  BY <1>2
<1> HIDE DEF r
<1>4. [r EXCEPT !.stage = st].page = r.page /\ [r EXCEPT !.stage = st].type = r.type
      /\ [r EXCEPT !.stage = st].stage = st
  BY <1>3 DEF Requests
<1> QED
  BY <1>2, <1>3, <1>4 DEF r

\* A request in flight belongs to a migration between two different pages.
LEMMA InFlightMigrates ==
    ASSUME TypeOK, Phase, NEW s \in Sides, InFlight(s) \/ buffered[s]
    PROVE  /\ migrating /\ promotee = inputPage /\ demotee = outputPage
           /\ promotee \in Pages /\ demotee \in Pages /\ promotee # demotee
           /\ ~Fast(promotee) /\ Fast(demotee)
           /\ promotee[2] # NoChannel /\ demotee[2] # NoChannel
           /\ migrationMap[promotee] = demotee[2] /\ migrationMap[demotee] = promotee[2]
           /\ Reading \/ Writing
<1>1. migrating
  BY DEF Phase, NothingLeftBehind
<1>2. promotee \in Pages /\ demotee \in Pages
  BY DEF TypeOK
<1> QED
  BY <1>1, <1>2, PageFacts DEF Phase, HookAgreesWithDecoder, Fast

\* A controller that takes a migration request keeps the phase.
LEMMA SchedulePhase ==
    ASSUME TypeOK, Phase, NEW s \in Sides, ScheduleMigration(s)
    PROVE  Phase'
<1>1. /\ request[s].stage = "queued"
      /\ request' = [request EXCEPT ![s].stage = "inService"]
      /\ UNCHANGED <<decoderVars, promotee, demotee, buffered>>
  BY DEF ScheduleMigration
<1>2. /\ request'[s].page = request[s].page /\ request'[s].type = request[s].type
      /\ request'[s].stage = "inService"
      /\ \A t \in Sides \ {s} : request'[t] = request[t]
  BY <1>1, StageChanged
<1>3. \A t \in Sides : /\ request'[t].page = request[t].page
                       /\ request'[t].type = request[t].type
                       /\ InFlight(t)' <=> InFlight(t)
  BY <1>1, <1>2 DEF InFlight
<1>4. Reading => Reading'
  BY <1>1, <1>3 DEF Reading, Source, decoderVars
<1>5. Writing => Writing'
  BY SMTT(30), <1>1, <1>3 DEF Writing, Source, Other, Sides, decoderVars
<1>6. NothingLeftBehind'
  BY <1>1, <1>3 DEF Phase, NothingLeftBehind, decoderVars
<1> QED
  BY <1>1, <1>4, <1>5, <1>6 DEF Phase, HookAgreesWithDecoder, Fast, decoderVars

\* The first read to complete leaves the other one in flight.
LEMMA FirstReadPhase ==
    ASSUME TypeOK, Phase, NEW s \in Sides, FirstReadComplete(s)
    PROVE  Phase'
<1>1. /\ request[s].stage = "inService" /\ request[s].type = "READ"
      /\ ~BufferComplete(s)
      /\ SetMigrationState([migrationState EXCEPT ![request[s].page] = "BUFFERED"])
      /\ request' = [request EXCEPT ![s].stage = "none"]
      /\ UNCHANGED <<buffered, promotee, demotee>>
  BY DEF FirstReadComplete, Completes
<1>2. InFlight(s)
  BY <1>1 DEF InFlight
<1>3. /\ migrating /\ promotee = inputPage /\ demotee = outputPage
      /\ promotee \in Pages /\ demotee \in Pages /\ promotee # demotee
      /\ ~Fast(promotee) /\ Fast(demotee)
      /\ promotee[2] # NoChannel /\ demotee[2] # NoChannel
      /\ migrationMap[promotee] = demotee[2] /\ migrationMap[demotee] = promotee[2]
  BY <1>2, InFlightMigrates
<1>4. Reading
  BY <1>1, <1>2, InFlightMigrates DEF Writing
<1>5. request[s].page = Source(s) /\ Source(s) \in Pages
      /\ Other(s) \in Sides /\ Other(s) # s /\ Source(Other(s)) # Source(s)
      /\ Source(Other(s)) \in Pages
      /\ \A t \in Sides : t = s \/ t = Other(s)
  BY <1>3, <1>4 DEF Reading, Source, Other, Sides
<1>6. migrationState[Source(Other(s))] = "READING" /\ InFlight(Other(s))
  <2>1. ~IsBuffered(Source(Other(s)))
    BY <1>1 DEF BufferComplete, Source, Other
  <2>2. migrationMap[Source(Other(s))] # NoChannel
    BY <1>3 DEF Source
  <2> QED
    BY <1>4, <1>5, <2>1, <2>2 DEF IsBuffered, Reading
<1>7. /\ migrationState' = [migrationState EXCEPT ![Source(s)] = "BUFFERED"]
      /\ UNCHANGED <<migrationMap, inputPage, outputPage>>
      /\ migrating' = (migrating /\ ~(/\ migrationState'[inputPage] = "DONE"
                                      /\ migrationState'[outputPage] = "DONE"))
  BY <1>1, <1>5 DEF SetMigrationState
<1>8. /\ migrationState'[Source(s)] = "BUFFERED"
      /\ \A p \in Pages : p # Source(s) => migrationState'[p] = migrationState[p]
  BY <1>5, <1>7 DEF TypeOK
<1>9. migrating'
  BY <1>3, <1>5, <1>7, <1>8 DEF Source
<1>10. /\ request'[s].page = request[s].page /\ request'[s].type = request[s].type
       /\ request'[s].stage = "none"
       /\ \A t \in Sides \ {s} : request'[t] = request[t]
  BY <1>1, StageChanged
<1>11. Source(s)' = Source(s) /\ Source(Other(s))' = Source(Other(s))
  BY <1>1 DEF Source
<1>12. Reading'
  <2>1. ~InFlight(s)' /\ InFlight(Other(s))'
    BY <1>5, <1>6, <1>10 DEF InFlight
  <2>2. \A t \in Sides : /\ request'[t].type = "READ" /\ request'[t].page = Source(t)'
                         /\ ~buffered'[t]
    BY SMTT(30), <1>1, <1>4, <1>5, <1>10, <1>11 DEF Reading
  <2>3. migrationState'[Source(s)'] = "BUFFERED"
        /\ migrationState'[Source(Other(s))'] = "READING"
    BY <1>5, <1>6, <1>8, <1>11
  <2>4. \A t \in Sides : migrationState'[Source(t)'] =
                            IF InFlight(t)' THEN "READING" ELSE "BUFFERED"
    BY <1>5, <2>1, <2>3
  <2> QED
    BY <1>5, <2>1, <2>2, <2>4 DEF Reading
<1>13. \A p \in Pages : migrationMap'[p] = NoChannel <=> migrationState'[p] = "UNKNOWN"
  BY <1>3, <1>7, <1>8 DEF Phase, Source
<1>14. \A p \in Pages : \/ migrationState'[p] \in {"UNKNOWN", "DONE"}
                        \/ migrating' /\ p \in {inputPage', outputPage'}
  BY <1>3, <1>7, <1>8, <1>9 DEF Phase, Source
<1> QED
  BY <1>1, <1>3, <1>7, <1>9, <1>12, <1>13, <1>14
     DEF Phase, HookAgreesWithDecoder, NothingLeftBehind, Fast

\* The second read to complete begins the writing phase.
LEMMA SecondReadPhase ==
    ASSUME TypeOK, Phase, NEW s \in Sides, SecondReadComplete(s)
    PROVE  Phase'
<1> DEFINE target == [t \in Sides |-> request[Other(t)].page]
           issued == {t \in Sides : HasRoom(cpuQueued, target[t][2])}
           read == [migrationState EXCEPT ![request[s].page] = "BUFFERED"]
           new == [p \in Pages |->
                     IF \E t \in issued : p = target[t] THEN "WRITING" ELSE read[p]]
<1>1. /\ request[s].stage = "inService" /\ request[s].type = "READ"
      /\ BufferComplete(s)
      /\ SetMigrationState(new)
      /\ request' = [t \in Sides |->
            [page |-> target[t], type |-> "WRITE",
             stage |-> IF t \in issued THEN "queued" ELSE "none"]]
      /\ buffered' = [t \in Sides |-> t \notin issued]
      /\ UNCHANGED <<promotee, demotee>>
  BY DEF SecondReadComplete, Completes
<1>2. InFlight(s)
  BY <1>1 DEF InFlight
<1>3. /\ migrating /\ promotee = inputPage /\ demotee = outputPage
      /\ promotee \in Pages /\ demotee \in Pages /\ promotee # demotee
      /\ ~Fast(promotee) /\ Fast(demotee)
      /\ promotee[2] # NoChannel /\ demotee[2] # NoChannel
      /\ migrationMap[promotee] = demotee[2] /\ migrationMap[demotee] = promotee[2]
  BY <1>2, InFlightMigrates
<1>4. Reading
  BY <1>1, <1>2, InFlightMigrates DEF Writing
<1>5. \A t \in Sides : target[t] = Source(Other(t))
  BY <1>4 DEF Reading, Other, Sides
<1>6. \A t \in Sides : Source(t) \in Pages /\ Other(t) \in Sides /\ Other(Other(t)) = t
                       /\ Source(Other(t)) # Source(t)
  BY <1>3 DEF Source, Other, Sides
<1>7. read[Source(s)] = "BUFFERED" /\ read[Source(Other(s))] = "BUFFERED"
  <2>1. IsBuffered(Source(Other(s)))
    BY <1>1 DEF BufferComplete, Source, Other
  <2>2. migrationState[Source(Other(s))] = "BUFFERED"
    BY <1>4, <1>6, <2>1 DEF IsBuffered, Reading
  <2> QED
    BY <1>4, <1>6, <2>2 DEF Reading, TypeOK
<1>8. \A p \in Pages : p # promotee /\ p # demotee => read[p] = migrationState[p]
  BY <1>4 DEF Reading, TypeOK, Source
<1>9. read[promotee] = "BUFFERED" /\ read[demotee] = "BUFFERED"
  BY <1>7 DEF Source, Other, Sides
<1> HIDE DEF read, issued, target
<1>10. \A p \in Pages : new[p] = IF \E t \in issued : p = target[t]
                                 THEN "WRITING" ELSE read[p]
  OBVIOUS
<1> HIDE DEF new
<1>11. issued \subseteq Sides
  BY DEF issued
<1>12. \A p \in Pages : p # promotee /\ p # demotee => new[p] = migrationState[p]
  BY <1>5, <1>8, <1>10, <1>11 DEF Source
<1>13. \A t \in Sides : new[Source(Other(t))] = IF t \in issued THEN "WRITING" ELSE "BUFFERED"
  <2> SUFFICES ASSUME NEW t \in Sides
               PROVE  new[Source(Other(t))] = IF t \in issued THEN "WRITING" ELSE "BUFFERED"
    OBVIOUS
  <2>1. read[Source(Other(t))] = "BUFFERED"
    BY <1>9 DEF Source
  <2>2. \A u \in Sides : target[u] = Source(Other(t)) <=> u = t
    BY <1>3, <1>5 DEF Source, Other, Sides
  <2>3. (\E u \in issued : Source(Other(t)) = target[u]) <=> t \in issued
    BY <1>11, <2>2
  <2> QED
    BY <1>6, <1>10, <2>1, <2>3
<1>14. new[promotee] \in {"WRITING", "BUFFERED"} /\ new[demotee] \in {"WRITING", "BUFFERED"}
  BY <1>13 DEF Source, Other, Sides
<1>15. /\ migrationState' = new /\ UNCHANGED <<migrationMap, inputPage, outputPage>>
       /\ migrating' = (migrating /\ ~(new[inputPage] = "DONE" /\ new[outputPage] = "DONE"))
  BY <1>1 DEF SetMigrationState
<1>16. migrating'
  BY <1>3, <1>14, <1>15
<1>17. \A t \in Sides : /\ request'[t].page = Source(Other(t))
                        /\ request'[t].type = "WRITE"
                        /\ InFlight(t)' <=> t \in issued
                        /\ buffered'[t] <=> t \notin issued
  BY <1>1, <1>5 DEF InFlight
<1>18. \A t \in Sides : Source(t)' = Source(t)
  BY <1>1 DEF Source
<1>19. Writing'
  <2>1. \A t \in Sides : request'[t].page = Source(Other(t))'
    BY <1>6, <1>17, <1>18
  <2>2. \A t \in Sides : migrationState'[request'[t].page] =
                            IF t \in issued THEN "WRITING" ELSE "BUFFERED"
    BY <1>13, <1>15, <1>17
  <2>3. \E t \in Sides : migrationState'[Source(t)'] # "DONE"
    BY <1>14, <1>15, <1>18 DEF Source, Sides
  <2> QED
    BY <1>17, <2>1, <2>2, <2>3 DEF Writing
<1>20. \A p \in Pages : migrationMap'[p] = NoChannel <=> migrationState'[p] = "UNKNOWN"
  BY <1>3, <1>12, <1>14, <1>15 DEF Phase
<1>21. \A p \in Pages : \/ migrationState'[p] \in {"UNKNOWN", "DONE"}
                        \/ migrating' /\ p \in {inputPage', outputPage'}
  BY <1>3, <1>12, <1>15, <1>16 DEF Phase
<1> QED
  BY <1>1, <1>3, <1>15, <1>16, <1>19, <1>20, <1>21
     DEF Phase, HookAgreesWithDecoder, NothingLeftBehind, Fast

\* What a completed migration write does: its page is DONE, and the migration
\* is over exactly when the other page is DONE, too.
LEMMA WriteCompletes ==
    ASSUME TypeOK, Phase, NEW s \in Sides, WriteComplete(s)
    PROVE  LET done == Source(Other(s))
               rest == Source(s)
           IN  /\ InFlight(s) /\ Writing
               /\ request[s].page = done /\ done \in Pages
               /\ rest \in Pages /\ rest # done
               /\ migrationState[done] \in {"BUFFERED", "WRITING"}
               /\ migrationState'[done] = "DONE"
               /\ \A p \in Pages : p # done => migrationState'[p] = migrationState[p]
               /\ UNCHANGED <<migrationMap, inputPage, outputPage, promotee, demotee, buffered>>
               /\ migrating' <=> migrationState[rest] # "DONE"
<1>1. /\ request[s].stage = "inService" /\ request[s].type = "WRITE"
      /\ SetMigrationState([migrationState EXCEPT ![request[s].page] = "DONE"])
      /\ UNCHANGED <<buffered, promotee, demotee>>
  BY DEF WriteComplete, Completes
<1>2. InFlight(s)
  BY <1>1 DEF InFlight
<1>3. /\ migrating /\ promotee = inputPage /\ demotee = outputPage
      /\ promotee \in Pages /\ demotee \in Pages /\ promotee # demotee
  BY <1>2, InFlightMigrates
<1>4. Writing
  BY <1>1, <1>2, InFlightMigrates DEF Reading
<1>5. /\ request[s].page = Source(Other(s))
      /\ migrationState[Source(Other(s))] \in {"BUFFERED", "WRITING"}
  BY <1>2, <1>4 DEF Writing
<1>6. Source(s) \in Pages /\ Source(Other(s)) \in Pages /\ Source(s) # Source(Other(s))
      /\ {Source(s), Source(Other(s))} = {inputPage, outputPage}
  BY <1>3 DEF Source, Other, Sides
<1>7. /\ migrationState' = [migrationState EXCEPT ![Source(Other(s))] = "DONE"]
      /\ UNCHANGED <<migrationMap, inputPage, outputPage>>
      /\ migrating' = (migrating /\ ~(/\ migrationState'[inputPage] = "DONE"
                                      /\ migrationState'[outputPage] = "DONE"))
  BY <1>1, <1>5 DEF SetMigrationState
<1>8. /\ migrationState'[Source(Other(s))] = "DONE"
      /\ \A p \in Pages : p # Source(Other(s)) => migrationState'[p] = migrationState[p]
  BY <1>6, <1>7 DEF TypeOK
<1>9. migrating' <=> migrationState[Source(s)] # "DONE"
  BY <1>3, <1>6, <1>7, <1>8
<1> QED
  BY <1>1, <1>2, <1>4, <1>5, <1>6, <1>7, <1>8, <1>9

\* A completed write leaves the writing phase only when it was the last one.
LEMMA WritePhase ==
    ASSUME TypeOK, Phase, NEW s \in Sides, WriteComplete(s)
    PROVE  Phase'
<1> DEFINE done == Source(Other(s))
           rest == Source(s)
<1>1. /\ InFlight(s) /\ Writing
      /\ request[s].page = done /\ done \in Pages /\ rest \in Pages /\ rest # done
      /\ migrationState[done] \in {"BUFFERED", "WRITING"}
      /\ migrationState'[done] = "DONE"
      /\ \A p \in Pages : p # done => migrationState'[p] = migrationState[p]
      /\ UNCHANGED <<migrationMap, inputPage, outputPage, promotee, demotee, buffered>>
      /\ migrating' <=> migrationState[rest] # "DONE"
  BY WriteCompletes
<1>2. /\ migrating /\ promotee = inputPage /\ demotee = outputPage
      /\ promotee \in Pages /\ demotee \in Pages /\ promotee # demotee
      /\ ~Fast(promotee) /\ Fast(demotee)
      /\ promotee[2] # NoChannel /\ demotee[2] # NoChannel
      /\ migrationMap[promotee] = demotee[2] /\ migrationMap[demotee] = promotee[2]
  BY <1>1, InFlightMigrates
<1>3. /\ request'[s].page = request[s].page /\ request'[s].type = request[s].type
      /\ request'[s].stage = "none"
      /\ \A t \in Sides \ {s} : request'[t] = request[t]
  BY StageChanged DEF WriteComplete
<1>4. /\ Other(s) \in Sides /\ Other(s) # s /\ Other(Other(s)) = s
      /\ \A t \in Sides : t = s \/ t = Other(s)
      /\ \A t \in Sides : Source(t)' = Source(t)
  BY <1>1 DEF Source, Other, Sides
<1>5. ~buffered[s] /\ ~InFlight(s)' /\ (InFlight(Other(s))' <=> InFlight(Other(s)))
  BY <1>1, <1>3, <1>4 DEF Writing, InFlight
<1>6. request[Other(s)].page = rest /\ request'[Other(s)].page = rest
      /\ migrationState'[rest] = migrationState[rest]
  <2>1. request[Other(s)].page = Source(Other(Other(s)))
    BY <1>1, <1>4 DEF Writing
  <2>2. request'[Other(s)] = request[Other(s)]
    BY <1>3, <1>4
  <2> QED BY <1>1, <1>4, <2>1, <2>2
<1>7. ASSUME migrating' PROVE Writing'
  <2>1. \A t \in Sides : request'[t].type = "WRITE" /\ request'[t].page = Source(Other(t))'
    BY SMTT(30), <1>1, <1>3, <1>4 DEF Writing
  <2>2. /\ ~buffered'[s] /\ ~InFlight(s)'
        /\ migrationState'[request'[s].page] = "DONE"
    BY <1>1, <1>3, <1>5
  <2>3. \/ buffered'[Other(s)] /\ ~InFlight(Other(s))' /\ migrationState'[rest] = "BUFFERED"
        \/ ~buffered'[Other(s)] /\ InFlight(Other(s))'
             /\ migrationState'[rest] \in {"BUFFERED", "WRITING"}
        \/ ~buffered'[Other(s)] /\ ~InFlight(Other(s))' /\ migrationState'[rest] = "DONE"
    BY <1>1, <1>4, <1>5, <1>6 DEF Writing
  <2>4. \E t \in Sides : migrationState'[Source(t)'] # "DONE"
    BY <1>1, <1>4, <1>6, <1>7
  <2> QED
    BY <1>4, <1>6, <2>1, <2>2, <2>3, <2>4 DEF Writing
<1>8. NothingLeftBehind'
  <2>1. SUFFICES ASSUME ~migrating' PROVE \A t \in Sides : ~buffered'[t] /\ ~InFlight(t)'
    BY DEF NothingLeftBehind
  <2>2. migrationState[request[Other(s)].page] = "DONE"
    BY <1>1, <1>6, <2>1
  <2>3. ~buffered[Other(s)] /\ ~InFlight(Other(s))
    BY <1>1, <1>4, <2>2 DEF Writing
  <2> QED
    BY <1>1, <1>4, <1>5, <2>3
<1>9. \A p \in Pages : migrationMap'[p] = NoChannel <=> migrationState'[p] = "UNKNOWN"
  BY <1>1 DEF Phase
<1>10. {done, rest} = {inputPage, outputPage}
  BY <1>2 DEF Source, Other, Sides
<1> HIDE DEF done, rest
<1>11. \A p \in Pages : \/ migrationState'[p] \in {"UNKNOWN", "DONE"}
                        \/ migrating' /\ p \in {inputPage', outputPage'}
  BY <1>1, <1>10 DEF Phase
<1> QED
  BY <1>1, <1>2, <1>7, <1>8, <1>9, <1>11 DEF Phase, HookAgreesWithDecoder, Fast

\* A write the hook still holds is issued, or stays with the hook.
LEMMA TryWritePhase ==
    ASSUME TypeOK, Phase, NEW s \in Sides, buffered[s], TryWrite(s),
           UNCHANGED <<decoderVars, promotee, demotee>>
    PROVE  Phase'
<1>1. CASE UNCHANGED <<request, buffered>>
  BY <1>1, PhaseUnchanged
<1>2. CASE /\ request' = [request EXCEPT ![s].stage = "queued"]
           /\ buffered' = [buffered EXCEPT ![s] = FALSE]
  <2>1. migrating /\ (Reading \/ Writing)
    BY InFlightMigrates
  <2>2. Writing
    BY <2>1 DEF Reading
  <2>3. /\ request'[s].page = request[s].page /\ request'[s].type = request[s].type
        /\ request'[s].stage = "queued"
        /\ \A t \in Sides \ {s} : request'[t] = request[t]
    BY <1>2, StageChanged
  <2>4. buffered'[s] = FALSE /\ \A t \in Sides \ {s} : buffered'[t] = buffered[t]
    BY <1>2, Zenon DEF TypeOK
  <2>5. migrationState[request[s].page] = "BUFFERED"
    BY <2>2 DEF Writing
  <2>6. \A t \in Sides : Source(t)' = Source(t)
    BY DEF Source
  <2>7. InFlight(s)' /\ \A t \in Sides \ {s} : InFlight(t)' <=> InFlight(t)
    BY <2>3 DEF InFlight
  <2>8. \A t \in Sides : Other(t) \in Sides
    BY DEF Other, Sides
  <2>9. Writing'
    <3>0. migrationState' = migrationState
      BY Zenon DEF decoderVars
    <3>1. \A t \in Sides : request'[t].type = request[t].type /\ request'[t].page = request[t].page
      BY <2>3
    <3>2. \A t \in Sides : request'[t].type = "WRITE" /\ request'[t].page = Source(Other(t))'
      BY <2>2, <2>6, <2>8, <3>1 DEF Writing
    <3>3. ~buffered'[s] /\ InFlight(s)' /\ migrationState'[request'[s].page] = "BUFFERED"
      BY <2>3, <2>4, <2>5, <2>7, <3>0
    <3>4. \A t \in Sides \ {s} :
             /\ buffered'[t] = buffered[t] /\ (InFlight(t)' <=> InFlight(t))
             /\ migrationState'[request'[t].page] = migrationState[request[t].page]
      BY <2>3, <2>4, <2>7, <3>0
    <3>5. \E t \in Sides : migrationState'[Source(t)'] # "DONE"
      BY <2>2, <2>6, <3>0 DEF Writing
    <3>6. ASSUME NEW t \in Sides
          PROVE  \/ buffered'[t] /\ ~InFlight(t)' /\ migrationState'[request'[t].page] = "BUFFERED"
                 \/ ~buffered'[t] /\ InFlight(t)'
                      /\ migrationState'[request'[t].page] \in {"BUFFERED", "WRITING"}
                 \/ ~buffered'[t] /\ ~InFlight(t)' /\ migrationState'[request'[t].page] = "DONE"
      <4>1. CASE t = s
        BY <3>3, <4>1
      <4>2. CASE t # s
        BY <2>2, <3>4, <4>2 DEF Writing
      <4> QED BY <4>1, <4>2
    <3> QED BY <3>2, <3>5, <3>6 DEF Writing
  <2>10. UNCHANGED <<migrationMap, migrationState, migrating, inputPage, outputPage,
                     promotee, demotee>>
    BY Zenon DEF decoderVars
  <2>11. \A p \in Pages : migrationMap'[p] = NoChannel <=> migrationState'[p] = "UNKNOWN"
    BY <2>10, Zenon DEF Phase
  <2>12. \A p \in Pages : \/ migrationState'[p] \in {"UNKNOWN", "DONE"}
                          \/ migrating' /\ p \in {inputPage', outputPage'}
    BY <2>10, Zenon DEF Phase
  <2>13. HookAgreesWithDecoder'
    BY <2>10, Zenon DEF Phase, HookAgreesWithDecoder, Fast
  <2>14. NothingLeftBehind'
    BY <2>1, <2>10, Zenon DEF NothingLeftBehind
  <2>15. migrationMap'[promotee'] = demotee'[2] /\ migrationMap'[demotee'] = promotee'[2]
    BY <2>1, <2>10, Zenon DEF Phase
  <2> QED
    BY <2>9, <2>11, <2>12, <2>13, <2>14, <2>15, Zenon DEF Phase
<1> QED
  BY <1>1, <1>2 DEF TryWrite

\* The completion of a processor request keeps the phase, also when it crashes.
LEMMA CompletePhase ==
    ASSUME TypeOK, Phase, Complete
    PROVE  Phase'
<1>1. UNCHANGED <<decoderVars, promotee, demotee>>
  BY DEF Complete, CompleteAndIdle, CompleteAndRetry, CompleteAndCrash, CpuCompletes
<1>2. \/ UNCHANGED <<request, buffered>>
      \/ \E s \in Sides : buffered[s] /\ TryWrite(s)
  BY DEF Complete, CompleteAndIdle, CompleteAndRetry, CompleteAndCrash, Sides
<1> QED
  BY <1>1, <1>2, PhaseUnchanged, TryWritePhase

-----------------------------------------------------------------------------
\* SwapInv holds initially.
LEMMA InitInv == Init => SwapInv
<1> SUFFICES ASSUME Init PROVE TypeOK /\ Phase
  BY SwapInvSplit
<1>1. TypeOK
  BY InitType
<1>2. ~migrating /\ \A s \in Sides : ~buffered[s] /\ ~InFlight(s)
  BY DEF Init, InFlight
<1> QED
  BY <1>1, <1>2 DEF Init, Phase, HookAgreesWithDecoder, NothingLeftBehind

\* Every step preserves SwapInv.
LEMMA StepInv == SwapInv /\ [Next]_vars => SwapInv'
<1> SUFFICES ASSUME TypeOK, Phase, [Next]_vars PROVE TypeOK' /\ Phase'
  BY SwapInvSplit, SwapInvSplitPrime
<1>1. CASE \E p \in Pages, hot \in BOOLEAN : Issue(p, hot)
  BY <1>1, IssueType, IssuePhase
<1>2. CASE \E c \in Channels : ScheduleCpu(c)
  <2>1. UNCHANGED <<decoderVars, promotee, demotee, request, buffered>>
    BY <1>2 DEF ScheduleCpu, hookVars
  <2> QED
    BY <1>2, <2>1, ServeType, PhaseUnchanged
<1>3. CASE \E s \in Sides : MigrationStep(s)
  <2>1. TypeOK'
    BY <1>3, ServeType
  <2>2. Phase'
    BY <1>3, SchedulePhase, FirstReadPhase, SecondReadPhase, WritePhase DEF MigrationStep
  <2> QED
    BY <2>1, <2>2
<1>4. CASE Complete
  BY <1>4, ServeType, CompletePhase
<1>5. CASE UNCHANGED vars
  <2>1. UNCHANGED <<decoderVars, promotee, demotee, request, buffered>>
    BY <1>5 DEF vars, hookVars
  <2>2. TypeOK'
    BY <1>5 DEF vars, decoderVars, hookVars, cpuVars, TypeOK, Fast
  <2> QED
    BY <2>1, <2>2, PhaseUnchanged
<1> QED
  BY <1>1, <1>2, <1>3, <1>4, <1>5 DEF Next

\* The protocol invariant: the decoder's states, the hook's flags and the
\* requests in the controllers always fit one phase of one migration.
THEOREM SwapInvariant == Spec => []SwapInv
<1>1. Init => SwapInv
  BY InitInv
<1>2. SwapInv /\ [Next]_vars => SwapInv'
  BY StepInv
<1> QED
  BY <1>1, <1>2, PTL DEF Spec

\* Every variable keeps its type.
THEOREM MigrationTypeCorrect == Spec => []TypeOK
<1>1. SwapInv => TypeOK
  BY DEF SwapInv
<1> QED
  BY <1>1, SwapInvariant, PTL

\* The hook and the decoder agree on the pages that are swapped.
THEOREM HookAgrees == Spec => []HookAgreesWithDecoder
<1>1. SwapInv => HookAgreesWithDecoder
  BY DEF SwapInv
<1> QED
  BY <1>1, SwapInvariant, PTL

\* The assertion at the start of a migration holds: nothing of the previous
\* migration is left in the hook or in a controller.
THEOREM MigrationsDoNotOverlap == Spec => []NothingLeftBehind
<1>1. SwapInv => NothingLeftBehind
  BY DEF SwapInv
<1> QED
  BY <1>1, SwapInvariant, PTL

\* No read or write of a migration is lost or issued twice.
THEOREM RequestsSurvive == Spec => []NoRequestLost
<1>1. SwapInv => NoRequestLost
  <2> SUFFICES ASSUME TypeOK, Phase PROVE NoRequestLost
    BY SwapInvSplit
  <2>1. CASE ~migrating
    BY <2>1 DEF Phase, NothingLeftBehind, NoRequestLost
  <2>2. CASE migrating
    <3>1. /\ promotee = inputPage /\ demotee = outputPage
          /\ promotee \in Pages /\ demotee \in Pages /\ promotee # demotee
          /\ Reading \/ Writing
      BY <2>2 DEF Phase, HookAgreesWithDecoder, TypeOK, Fast
    <3>2. \A p \in Pages : migrationState[p] = "READING" => p = promotee \/ p = demotee
      BY <3>1 DEF Phase
    <3>3. \A t \in Sides : Source(t) # Source(Other(t)) /\ Other(t) \in Sides
                           /\ Other(Other(t)) = t
      BY <3>1 DEF Source, Other, Sides
    <3>4. CASE Reading
      <4>1. \A p \in Pages : migrationState[p] = "READING" <=>
              \E t \in Sides : InFlight(t) /\ request[t].type = "READ" /\ request[t].page = p
        BY <3>2, <3>4 DEF Reading, Source, Sides
      <4>2. \A t \in Sides : request[t].type # "WRITE" /\ ~buffered[t]
        BY <3>4 DEF Reading
      <4> QED
        BY <4>1, <4>2 DEF NoRequestLost
    <3>5. CASE Writing
      <4>1. \A t \in Sides : request[t].type = "WRITE" /\ request[t].page = Source(Other(t))
        BY <3>5 DEF Writing
      <4>2. migrationState[promotee] # "READING" /\ migrationState[demotee] # "READING"
        BY <3>5, <4>1 DEF Writing, Source, Other, Sides
      <4>3. \A p \in Pages : migrationState[p] # "READING"
        BY <3>2, <4>2
      <4>4. \A t \in Sides : request[Other(t)].page # request[t].page
        BY SMTT(30), <3>3, <4>1
      <4>5. \A t \in Sides : /\ ~(buffered[t] /\ InFlight(t))
                             /\ buffered[t] \/ InFlight(t) =>
                                  migrationState[request[t].page] \in {"BUFFERED", "WRITING"}
        BY <3>5 DEF Writing
      <4> QED
        BY <4>1, <4>3, <4>4, <4>5 DEF NoRequestLost
    <3> QED
      BY <3>1, <3>4, <3>5
  <2> QED
    BY <2>1, <2>2
<1> QED
  BY <1>1, SwapInvariant, PTL

\* No page is overwritten while a page of the swap is still being read.
THEOREM ReadBeforeOverwrite == Spec => []NoOverwriteBeforeRead
<1>1. SwapInv => NoOverwriteBeforeRead
  <2> SUFFICES ASSUME TypeOK, Phase,
                      NEW s \in Sides, InFlight(s), request[s].type = "WRITE",
                      NEW p \in Pages
               PROVE  migrationState[p] # "READING"
    BY SwapInvSplit DEF NoOverwriteBeforeRead
  <2>1. /\ migrating /\ promotee = inputPage /\ demotee = outputPage
        /\ Reading \/ Writing
    BY InFlightMigrates
  <2>2. Writing
    BY <2>1 DEF Reading
  <2>3. migrationState[promotee] # "READING" /\ migrationState[demotee] # "READING"
    BY <2>2 DEF Writing, Source, Other, Sides
  <2> QED
    BY <2>1, <2>3 DEF Phase
<1> QED
  BY <1>1, SwapInvariant, PTL

-----------------------------------------------------------------------------
\* The steps as the abstract swap sees them.

\* Nothing the abstract swap knows of changes.
Quiet ==
    /\ migrating' = migrating
    /\ UNCHANGED <<migrationMap, inputPage, outputPage>>
    /\ \A p \in Pages : IsMigrated(p)' <=> IsMigrated(p)

\* A swap of two unmigrated pages begins.
Starts ==
    /\ ~migrating /\ migrating'
    /\ inputPage' \in Pages /\ outputPage' \in Pages
    /\ ~Fast(inputPage') /\ Fast(outputPage')
    /\ \A p \in {inputPage', outputPage'} : ~IsMigrated(p) /\ ~IsMigrated(p)'
    /\ \A p \in Pages \ {inputPage', outputPage'} :
          (IsMigrated(p)' <=> IsMigrated(p)) /\ migrationMap'[p] = migrationMap[p]

\* One page of the swap arrives; rest is the other one.
Arrives(done, rest) ==
    /\ migrating
    /\ \/ done = inputPage /\ rest = outputPage
       \/ done = outputPage /\ rest = inputPage
    /\ done \in Pages /\ rest \in Pages /\ done # rest
    /\ migrationMap[done] = rest[2]
    /\ UNCHANGED <<migrationMap, inputPage, outputPage>>
    /\ ~IsMigrated(done) /\ IsMigrated(done)'
    /\ \A p \in Pages \ {done} : IsMigrated(p)' <=> IsMigrated(p)
    /\ migrating' <=> ~IsMigrated(rest)

\* Reading pages is invisible to the abstract swap.
LEMMA ReadsAreQuiet ==
    ASSUME TypeOK, Phase, NEW s \in Sides, FirstReadComplete(s) \/ SecondReadComplete(s)
    PROVE  Quiet
<1>1. request[s].stage = "inService" /\ request[s].type = "READ"
  BY DEF FirstReadComplete, SecondReadComplete, Completes
<1>2. InFlight(s)
  BY <1>1 DEF InFlight
<1>3. /\ migrating /\ promotee = inputPage /\ demotee = outputPage
      /\ promotee \in Pages /\ demotee \in Pages /\ promotee # demotee
  BY <1>2, InFlightMigrates
<1>4. Reading
  BY <1>1, <1>2, InFlightMigrates DEF Writing
<1>5. \A t \in Sides : /\ request[t].page \in {promotee, demotee}
                       /\ migrationState[request[t].page] # "DONE"
  BY <1>4 DEF Reading, Source
<1>6. migrationState[promotee] # "DONE" /\ migrationState[demotee] # "DONE"
  BY <1>4 DEF Reading, Source, Sides
<1>7. \E new \in [Pages -> States] :
        /\ SetMigrationState(new)
        /\ new[promotee] # "DONE" /\ new[demotee] # "DONE"
        /\ \A p \in Pages \ {promotee, demotee} : new[p] = migrationState[p]
  <2> DEFINE read == [migrationState EXCEPT ![request[s].page] = "BUFFERED"]
  <2>1. /\ read \in [Pages -> States]
        /\ read[promotee] # "DONE" /\ read[demotee] # "DONE"
        /\ \A p \in Pages \ {promotee, demotee} : read[p] = migrationState[p]
    BY <1>3, <1>5, <1>6 DEF TypeOK, States
  <2>2. CASE FirstReadComplete(s)
    BY <2>1, <2>2 DEF FirstReadComplete
  <2>3. CASE SecondReadComplete(s)
    <3> DEFINE target == [t \in Sides |-> request[Other(t)].page]
               issued == {t \in Sides : HasRoom(cpuQueued, target[t][2])}
               new == [p \in Pages |->
                         IF \E t \in issued : p = target[t] THEN "WRITING" ELSE read[p]]
    <3>1. SetMigrationState(new)
      BY <2>3 DEF SecondReadComplete
    <3>2. \A t \in issued : target[t] \in {promotee, demotee}
      BY <1>5 DEF Other, Sides
    <3> HIDE DEF issued, target, read
    <3>3. /\ new \in [Pages -> States]
          /\ new[promotee] # "DONE" /\ new[demotee] # "DONE"
          /\ \A p \in Pages \ {promotee, demotee} : new[p] = migrationState[p]
      BY <1>3, <2>1, <3>2 DEF States
    <3> HIDE DEF new
    <3> QED
      BY <3>1, <3>3
  <2> QED
    BY <2>2, <2>3
<1>8. PICK new \in [Pages -> States] :
        /\ SetMigrationState(new)
        /\ new[promotee] # "DONE" /\ new[demotee] # "DONE"
        /\ \A p \in Pages \ {promotee, demotee} : new[p] = migrationState[p]
  BY <1>7
<1>9. /\ migrationState' = new /\ UNCHANGED <<migrationMap, inputPage, outputPage>>
      /\ migrating' = (migrating /\ ~(new[inputPage] = "DONE" /\ new[outputPage] = "DONE"))
  BY <1>8 DEF SetMigrationState
<1>10. migrating' = TRUE /\ migrating = TRUE
  BY <1>3, <1>8, <1>9 DEF TypeOK
<1>11. \A p \in Pages : IsMigrated(p)' <=> IsMigrated(p)
  BY <1>6, <1>8, <1>9 DEF IsMigrated
<1> QED
  BY <1>9, <1>10, <1>11 DEF Quiet

\* Every step is one of the three.
LEMMA StepKinds ==
    ASSUME TypeOK, Phase, [Next]_vars
    PROVE  Quiet \/ Starts \/ \E done, rest \in Pages : Arrives(done, rest)
<1>1. ASSUME UNCHANGED decoderVars PROVE Quiet
  BY <1>1 DEF Quiet, decoderVars, IsMigrated
<1>2. ASSUME NEW p \in Pages, NEW hot \in BOOLEAN, IssueAndMigrate(p, hot) PROVE Starts
  <2>1. /\ ChooseVictim(p, hot) /\ ~IsMigrated(demotee')
        /\ StartMigration(promotee', demotee')
    BY <1>2 DEF IssueAndMigrate
  <2>2. /\ promotee' \in Pages /\ demotee' \in Pages
        /\ ~Fast(promotee') /\ Fast(demotee')
        /\ ~migrating /\ ~IsMigrated(promotee')
    BY <2>1, ChooseVictimType
  <2>3. inputPage' = promotee' /\ outputPage' = demotee' /\ migrating'
    BY <2>1 DEF StartMigration
  <2>4. /\ migrationState'[promotee'] = "READING" /\ migrationState'[demotee'] = "READING"
        /\ \A q \in Pages \ {promotee', demotee'} :
              migrationState'[q] = migrationState[q] /\ migrationMap'[q] = migrationMap[q]
    BY <2>1, <2>2 DEF StartMigration, TypeOK
  <2>5. \A q \in {inputPage', outputPage'} : ~IsMigrated(q)'
    BY <2>3, <2>4 DEF IsMigrated
  <2>6. \A q \in Pages \ {inputPage', outputPage'} :
          (IsMigrated(q)' <=> IsMigrated(q)) /\ migrationMap'[q] = migrationMap[q]
    BY <2>3, <2>4 DEF IsMigrated
  <2> QED
    BY <2>1, <2>2, <2>3, <2>5, <2>6 DEF Starts, Fast
<1>3. ASSUME NEW s \in Sides, WriteComplete(s)
      PROVE  \E done, rest \in Pages : Arrives(done, rest)
  <2> DEFINE done == Source(Other(s))
             rest == Source(s)
  <2>1. /\ InFlight(s) /\ done \in Pages /\ rest \in Pages /\ rest # done
        /\ migrationState[done] \in {"BUFFERED", "WRITING"}
        /\ migrationState'[done] = "DONE"
        /\ \A p \in Pages : p # done => migrationState'[p] = migrationState[p]
        /\ UNCHANGED <<migrationMap, inputPage, outputPage>>
        /\ migrating' <=> migrationState[rest] # "DONE"
    BY <1>3, WriteCompletes
  <2>2. /\ migrating /\ promotee = inputPage /\ demotee = outputPage
        /\ promotee[2] # NoChannel /\ demotee[2] # NoChannel
        /\ migrationMap[promotee] = demotee[2] /\ migrationMap[demotee] = promotee[2]
    BY <2>1, InFlightMigrates
  <2>3. /\ \/ done = inputPage /\ rest = outputPage
           \/ done = outputPage /\ rest = inputPage
        /\ migrationMap[done] = rest[2] /\ migrationMap[done] # NoChannel
        /\ migrationMap[rest] # NoChannel
    BY <2>2 DEF Source, Other, Sides
  <2> HIDE DEF done, rest
  <2>4. ~IsMigrated(done) /\ \A p \in Pages \ {done} : IsMigrated(p)' <=> IsMigrated(p)
    BY <2>1 DEF IsMigrated
  <2>5. migrationMap'[done] # NoChannel /\ migrationState'[done] = "DONE"
    BY <2>1, <2>3
  <2>6. migrating' <=> ~IsMigrated(rest)
    BY <2>1, <2>3 DEF IsMigrated
  <2>7. done' = done
    BY <1>3 DEF done, Source, WriteComplete, Completes
  <2>8. \A p \in Pages : p = done => IsMigrated(p)'
    BY <2>5 DEF IsMigrated
  <2>9. Arrives(done, rest)
    BY <2>1, <2>2, <2>3, <2>4, <2>6, <2>7, <2>8 DEF Arrives
  <2> QED
    BY <2>1, <2>9
<1>4. ASSUME NEW p \in Pages, NEW hot \in BOOLEAN, Issue(p, hot) PROVE Quiet \/ Starts
  BY <1>1, <1>2, <1>4
     DEF Issue, IssueCommand, IssueAndWait, IssueAndFail, IssueAndHang
<1>5. ASSUME NEW s \in Sides, MigrationStep(s)
      PROVE  Quiet \/ \E done, rest \in Pages : Arrives(done, rest)
  BY <1>1, <1>3, <1>5, ReadsAreQuiet DEF MigrationStep, ScheduleMigration
<1>6. ASSUME (\E c \in Channels : ScheduleCpu(c)) \/ Complete \/ UNCHANGED vars PROVE Quiet
  <2>1. UNCHANGED decoderVars
    BY <1>6 DEF ScheduleCpu, Complete, CompleteAndIdle, CompleteAndRetry,
                CompleteAndCrash, CpuCompletes, vars
  <2> QED
    BY <1>1, <2>1
<1> QED
  BY <1>4, <1>5, <1>6 DEF Next

\* A step leaves the state and the channel of a migrated page alone.
LEMMA DoneStays ==
    ASSUME SwapInv, [Next]_vars, NEW p \in Pages, IsMigrated(p)
    PROVE  migrationState'[p] = "DONE" /\ migrationMap'[p] = migrationMap[p]
<1>1. CASE Quiet
  BY <1>1 DEF Quiet, IsMigrated
<1>2. CASE Starts
  BY <1>2 DEF Starts, IsMigrated
<1>3. CASE \E done, rest \in Pages : Arrives(done, rest)
  BY <1>3 DEF Arrives, IsMigrated
<1> QED
  BY <1>1, <1>2, <1>3, StepKinds, SwapInvSplit

\* A page that has migrated never changes its state or its channel again.
THEOREM MigratedForGood == Spec => DoneIsFinal
<1>1. SwapInv /\ [Next]_vars =>
        [\A p \in Pages : IsMigrated(p) =>
            migrationState'[p] = "DONE" /\ migrationMap'[p] = migrationMap[p]]_vars
  BY DoneStays
<1> QED
  BY <1>1, SwapInvariant, PTL DEF Spec, DoneIsFinal

\* The channel of a page, spelt out.
LEMMA TranslateChannel ==
    ASSUME NEW p
    PROVE  Translate(p)[2] = IF IsMigrated(p) THEN migrationMap[p] ELSE p[2]
BY DEF Translate

\* The protocol implements the abstract swap.
THEOREM SwapRefinement == Spec => ImplementsSwap
<1> DEFINE home == [p \in Pages |-> Translate(p)[2]]
           pair == <<inputPage, outputPage>>
           pending == {p \in {inputPage, outputPage} : migrating /\ ~IsMigrated(p)}
<1>1. Init => Swap!SwapInit
  <2> SUFFICES ASSUME Init PROVE Swap!SwapInit
    OBVIOUS
  <2>1. \A p \in Pages : ~IsMigrated(p)
    BY DEF Init, IsMigrated
  <2>2. home = [p \in Pages |-> p[2]]
    BY <2>1, TranslateChannel
  <2>3. pair \in Pages \X Pages /\ pending = {}
    BY PageFacts DEF Init
  <2> QED
    BY <2>2, <2>3 DEF Swap!SwapInit
<1>2. SwapInv /\ [Next]_vars => [Swap!SwapNext]_(Swap!swapVars)
  <2> SUFFICES ASSUME TypeOK, Phase, [Next]_vars
               PROVE  Swap!SwapNext \/ UNCHANGED <<home, pair, pending>>
    BY SwapInvSplit DEF Swap!swapVars
  <2>0. inputPage \in Pages /\ outputPage \in Pages
    BY DEF TypeOK
  <2>1. CASE Quiet
    <3>1. home' = home
      BY <2>1 DEF Quiet, Translate
    <3>2. pair' = pair /\ pending' = pending
      BY <2>0, <2>1 DEF Quiet
    <3> QED
      BY <3>1, <3>2
  <2>2. CASE Starts
    <3>1. home' = home
      BY <2>2 DEF Starts, Translate
    <3>2. pending = {} /\ pending' = {inputPage', outputPage'}
      BY <2>2 DEF Starts
    <3>3. home[inputPage'] = inputPage'[2] /\ home[outputPage'] = outputPage'[2]
      BY <2>2, TranslateChannel DEF Starts
    <3> HIDE DEF home, pending
    <3>4. Swap!Begin(inputPage', outputPage')
      BY <2>2, <3>1, <3>2, <3>3 DEF Swap!Begin, Starts, Fast, home, pending
    <3> QED
      BY <2>2, <3>4 DEF Swap!SwapNext, Starts
  <2>3. ASSUME NEW done \in Pages, NEW rest \in Pages, Arrives(done, rest)
        PROVE  Swap!Move(done)
    <3>1. done \in pending
      BY <2>3 DEF Arrives
    <3>2. pending' = pending \ {done}
      BY <2>3 DEF Arrives
    <3>3. pair' = pair
      BY <2>3 DEF Arrives
    <3>4. rest[2] = IF done = pair[1] THEN pair[2][2] ELSE pair[1][2]
      BY <2>3 DEF Arrives
    <3>5. home' = [home EXCEPT ![done] = rest[2]]
      BY <2>3 DEF Arrives, Translate
    <3> QED
      BY <3>1, <3>2, <3>3, <3>4, <3>5 DEF Swap!Move
  <2> QED
    BY <2>1, <2>2, <2>3, StepKinds DEF Swap!SwapNext
<1> QED
  BY <1>1, <1>2, SwapInvariant, PTL DEF Spec, ImplementsSwap, Swap!SwapSpec

-----------------------------------------------------------------------------
(* Every channel keeps its number of pages. *)

\* Where the page is, or will be once its migration is over.
Destination(map, p) == IF map[p] = NoChannel THEN p[2] ELSE map[p]

PagesOf(map, c) == {p \in Pages : Destination(map, p) = c}

\* Every channel has, or will have, as many pages as it has frames.
Balanced(map) ==
    \A c \in Channels : IsFiniteSet(PagesOf(map, c)) /\ Cardinality(PagesOf(map, c)) = NumFrames

BalancedInv == \E map : map = migrationMap /\ Balanced(map)

\* Before any migration the pages of a channel are its frames.
LEMMA UnmigratedBalanced ==
    ASSUME NEW map, \A p \in Pages : map[p] = NoChannel
    PROVE  Balanced(map)
<1> SUFFICES ASSUME NEW c \in Channels
             PROVE  IsFiniteSet(PagesOf(map, c)) /\ Cardinality(PagesOf(map, c)) = NumFrames
  BY DEF Balanced
<1> DEFINE S == PagesOf(map, c)
           f == [i \in Frames |-> <<i, c>>]
<1>1. \A p : p \in S <=> p \in Pages /\ p[2] = c
  BY DEF PagesOf, Destination
<1>2. 0 \in Int /\ NumFrames - 1 \in Int /\ NumFrames \in Nat
      /\ (0 <= NumFrames - 1 => (NumFrames - 1) - 0 + 1 = NumFrames) /\ 0 <= NumFrames - 1
  BY SMTT(30), MigrationAssumption
<1>3. IsFiniteSet(Frames) /\ Cardinality(Frames) = NumFrames
  BY SMTT(30), <1>2, FS_Interval DEF Frames
<1> HIDE DEF S
<1>4. f \in Bijection(Frames, S)
  <2>1. \A i \in Frames : <<i, c>> \in S
    BY <1>1, PageFacts
  <2>2. \A i, j \in Frames : <<i, c>> = <<j, c>> => i = j
    BY PageFacts
  <2>3. \A p \in S : p[1] \in Frames /\ p = <<p[1], c>>
    BY <1>1, PageFacts
  <2>4. f \in [Frames -> S] /\ \A i, j \in Frames : f[i] = f[j] => i = j
    BY <2>1, <2>2
  <2>5. \A p \in S : \E i \in Frames : f[i] = p
    BY <2>3
  <2> QED BY <2>4, <2>5 DEF Bijection, Injection, Surjection, IsInjective
<1>5. ExistsBijection(Frames, S)
  BY <1>4 DEF ExistsBijection
<1> QED BY <1>3, <1>5, FS_Bijection DEF S

\* Exchanging the channels of two pages leaves every channel its number.
LEMMA ExchangeBalanced ==
    ASSUME NEW map, Balanced(map), NEW new, NEW promo \in Pages, NEW demo \in Pages,
           promo[2] # demo[2], map[promo] = NoChannel, map[demo] = NoChannel,
           NoChannel \notin Channels, new[promo] = demo[2], new[demo] = promo[2],
           \A p \in Pages \ {promo, demo} : new[p] = map[p]
    PROVE  Balanced(new)
<1> SUFFICES ASSUME NEW c \in Channels
             PROVE  IsFiniteSet(PagesOf(new, c)) /\ Cardinality(PagesOf(new, c)) = NumFrames
  BY DEF Balanced
<1> DEFINE S == PagesOf(map, c)
           T == PagesOf(new, c)
<1>1. IsFiniteSet(S) /\ Cardinality(S) = NumFrames
  BY DEF Balanced
<1>2. promo[2] \in Channels /\ demo[2] \in Channels
  BY PageFacts
<1>3. /\ Destination(map, promo) = promo[2] /\ Destination(map, demo) = demo[2]
      /\ Destination(new, promo) = demo[2] /\ Destination(new, demo) = promo[2]
      /\ \A p \in Pages \ {promo, demo} : Destination(new, p) = Destination(map, p)
  BY <1>2 DEF Destination
<1>4. /\ \A p : p \in S <=> p \in Pages /\ Destination(map, p) = c
      /\ \A p : p \in T <=> p \in Pages /\ Destination(new, p) = c
  BY DEF PagesOf
<1>5. ASSUME NEW out \in Pages, NEW in \in Pages, {out, in} = {promo, demo}, out[2] = c
      PROVE  IsFiniteSet(T) /\ Cardinality(T) = NumFrames
  <2>1. out # in /\ out \in S /\ out \notin T /\ in \notin S /\ in \in T
    BY ZenonT(60), <1>3, <1>4, <1>5
  <2>2. T = (S \ {out}) \cup {in}
    <3>1. \A p \in Pages \ {out, in} : p \in T <=> p \in S
      BY <1>3, <1>4, <1>5
    <3>2. S \subseteq Pages /\ T \subseteq Pages
      BY DEF PagesOf
    <3> HIDE DEF S, T
    <3> QED BY <2>1, <3>1, <3>2
  <2> HIDE DEF S, T
  <2>3. IsFiniteSet(S \ {out}) /\ Cardinality(S \ {out}) = Cardinality(S) - 1
    BY <1>1, <2>1, FS_RemoveElement
  <2>4. in \notin S \ {out}
    BY <2>1
  <2>5. IsFiniteSet(T) /\ Cardinality(T) = Cardinality(S \ {out}) + 1
    BY <2>2, <2>3, <2>4, FS_AddElement
  <2> QED BY SMTT(30), <1>1, <2>3, <2>5, MigrationAssumption
<1>6. CASE promo[2] = c
  BY <1>5, <1>6
<1>7. CASE demo[2] = c
  BY <1>5, <1>7
<1>8. CASE promo[2] # c /\ demo[2] # c
  <2>1. \A p : p \in T <=> p \in S
    BY ZenonT(60), <1>3, <1>4, <1>8
  <2>2. T = S
    BY <2>1 DEF PagesOf
  <2> QED BY <1>1, <2>2
<1> QED BY <1>6, <1>7, <1>8

\* Only the start of a migration changes where pages will be, and it exchanges two.
LEMMA BalancedStep == SwapInv /\ BalancedInv /\ [Next]_vars => BalancedInv'
<1> SUFFICES ASSUME SwapInv, BalancedInv, [Next]_vars PROVE Balanced(migrationMap')
  BY DEF BalancedInv
<1>1. TypeOK /\ Phase /\ TypeOK' /\ Phase'
  BY StepInv, SwapInvSplit, SwapInvSplitPrime
<1>2. Balanced(migrationMap)
  BY DEF BalancedInv
<1>3. CASE Quiet
  BY <1>2, <1>3 DEF Quiet
<1>4. CASE \E done, rest \in Pages : Arrives(done, rest)
  BY <1>2, <1>4 DEF Arrives
<1>5. CASE Starts
  <2> DEFINE promo == inputPage'
             demo == outputPage'
  <2>1. /\ ~migrating /\ migrating' /\ promo \in Pages /\ demo \in Pages
        /\ ~Fast(promo) /\ Fast(demo) /\ ~IsMigrated(promo) /\ ~IsMigrated(demo)
        /\ \A p \in Pages \ {promo, demo} : migrationMap'[p] = migrationMap[p]
    BY <1>5 DEF Starts
  <2>2. \A p \in Pages : ~IsMigrated(p) => migrationMap[p] = NoChannel
    BY <1>1, <2>1 DEF Phase, IsMigrated
  <2>3. /\ promotee' = promo /\ demotee' = demo
        /\ migrationMap'[promo] = demo[2] /\ migrationMap'[demo] = promo[2]
    BY <1>1, <2>1 DEF Phase, HookAgreesWithDecoder
  <2>4. NoChannel \notin Channels
    BY SMTT(30), MigrationAssumption DEF NoChannel, Channels
  <2>5. promo[2] # demo[2]
    BY <2>1 DEF Fast
  <2> HIDE DEF promo, demo
  <2> QED BY <1>2, <2>1, <2>2, <2>3, <2>4, <2>5, ExchangeBalanced
<1> QED BY <1>1, <1>3, <1>4, <1>5, StepKinds

\* As many pages are promoted as are demoted: when no migration is under way
\* every channel serves as many pages as it has frames, after any number of
\* migrations and for every number of frames and channels.
THEOREM MigrationBalanced == Spec => []ChannelsBalanced
<1>1. Init => BalancedInv
  <2> SUFFICES ASSUME Init PROVE Balanced(migrationMap)
    BY DEF BalancedInv
  <2>1. \A p \in Pages : migrationMap[p] = NoChannel
    BY DEF Init
  <2> QED BY <2>1, UnmigratedBalanced
<1>2. SwapInv /\ BalancedInv => ChannelsBalanced
  <2> SUFFICES ASSUME SwapInv, BalancedInv, ~migrating, NEW c \in Channels
               PROVE  Cardinality({p \in Pages : Translate(p)[2] = c}) = NumFrames
    BY DEF ChannelsBalanced
  <2>1. Balanced(migrationMap) /\ TypeOK /\ Phase
    BY SwapInvSplit DEF BalancedInv
  <2>2. ASSUME NEW p \in Pages PROVE Translate(p)[2] = Destination(migrationMap, p)
    <3>1. migrationMap[p] = NoChannel \/ IsMigrated(p)
      BY <2>1 DEF Phase, IsMigrated
    <3> QED BY <3>1, TranslateChannel DEF Destination, IsMigrated
  <2>3. {p \in Pages : Translate(p)[2] = c} = PagesOf(migrationMap, c)
    BY <2>2 DEF PagesOf
  <2> QED BY <2>1, <2>3 DEF Balanced
<1> QED
  BY <1>1, <1>2, BalancedStep, SwapInvariant, PTL DEF Spec
=============================================================================
