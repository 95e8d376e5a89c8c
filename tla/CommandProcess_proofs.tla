------------------------ MODULE CommandProcess_proofs ------------------------
(***************************************************************************)
(* Types and safety of CommandProcess, for every form of command, every    *)
(* set of time limits that may pass and every number of kills and failed   *)
(* calls.                                                                  *)
(***************************************************************************)
EXTENDS CommandProcess, TLAPS

USE DEF Roles, Owners, Child, Parent, Down, Back, Links, Tags, Rank,
        world, wires, minds, facts, outer,
        Alive, InBody, At, Tail, Sends, Reads, Passes, Goes, Cleans, Hears, Fails

-----------------------------------------------------------------------------
(* Types, by groups of variables.                                          *)

WorldType ==
    /\ proc \in [Roles -> Lives] /\ status \in [Roles -> Ways]
    /\ image \in {"helper", "target"} /\ kid \in {"none", "running", "gone"}
    /\ grp \in {"start", "G", "moved"}
WireType == chan \in [Links -> SUBSET Tags] /\ shut \subseteq Links
StageType ==
    /\ body \in [Roles -> Bodies] /\ tail \in [Roles -> Tails]
    /\ got \in [Owners -> SUBSET Tags] /\ tried \subseteq Owners \X {"CREATE", "RUN"}
    /\ has \in [Owners -> {"none", "made", "lost"}]
MarkType ==
    /\ rcpt \in [{"C", "A", "W"} -> Ways]
    /\ failed \subseteq Owners /\ unk \subseteq Owners
    /\ proto \subseteq Owners /\ passed \subseteq Limits
    /\ wants \in Requests
RecordType ==
    /\ work \in [run : Answers, noChild : Answers, wait : Ways, rejected : Answers,
                 producer : Answers, result : Answers]
    /\ term \in [create : Answers, run : Answers, noTarget : Kinds, wait : Ways,
                 producer : Answers, result : Answers, fence : Answers]
    /\ verdict \in [final : Answers, tag : Kinds, dispatched : Answers, wait : Ways,
                    complete : Answers]
    /\ absent \in {"yes", "no"} /\ seal \in {"yes", "no"}
    /\ fence \in {"none", "pending", "linked", "synced"}
    /\ relay \in {"none", "full", "cut"}
CountType == kills \in 0..MaxKills /\ faults \in 0..MaxFaults

\* What an attempt to grant leaves alone, and what it reads and writes.
LEMMA AttemptFrame ==
  ASSUME NEW p, NEW b, Attempt(p, b)
  PROVE  /\ UNCHANGED <<proc, status, image, kid, grp, has, rcpt, unk, proto>>
         /\ UNCHANGED <<wants, passed, kills, work, absent, seal, fence, relay, term, verdict>>
  BY DEF Attempt

\* The grant that is attempted.
LEMMA AttemptGrant ==
  ASSUME NEW p \in Owners, NEW b, Attempt(p, b)
  PROVE  /\ body[p] \in {"prepared", "ready", "create", "run"}
         /\ GrantStage[p][body[p]] \in {"CREATE", "RUN"}
<1>1. CASE p = "O"
  BY <1>1 DEF Attempt, GrantStage
<1>2. CASE p = "C"
  BY <1>2 DEF Attempt, GrantStage
<1>3. CASE p = "A"
  BY <1>3 DEF Attempt, GrantStage
<1> QED BY <1>1, <1>2, <1>3

LEMMA AttemptTypes ==
  ASSUME StageType, NEW p \in Owners, NEW b, Attempt(p, b)
  PROVE  got' \in [Owners -> SUBSET Tags] /\ tried' \subseteq Owners \X {"CREATE", "RUN"}
<1>1. /\ tried' = tried \cup {<<p, GrantStage[p][body[p]]>>}
      /\ got' \in {got, [got EXCEPT ![p] = @ \cup {"READY"}]}
  BY DEF Attempt
<1> QED BY <1>1, AttemptGrant DEF StageType

LEMMA AttemptWires ==
  ASSUME WireType, NEW p \in Owners, NEW b, Attempt(p, b)
  PROVE  chan' \in [Links -> SUBSET Tags]
<1> DEFINE t == GrantStage[p][body[p]]
<1>1. chan' = [l \in Links |->
                 (IF l = Cause(p, t).link THEN chan[l] \ {Cause(p, t).tag} ELSE chan[l])
                   \cup (IF l = Down[p] /\ b THEN {t} ELSE {})]
  BY DEF Attempt
<1>2. t \in {"CREATE", "RUN"}
  BY AttemptGrant
<1> HIDE DEF t
<1>3. \A l \in Links : chan[l] \subseteq Tags /\ {t} \subseteq Tags
  BY <1>2 DEF WireType
<1> QED BY <1>1, <1>3

LEMMA FaultCounts ==
  ASSUME CountType, Fault
  PROVE  faults' \in 0..MaxFaults
  BY BoundsAssumption DEF CountType, Fault

LEMMA KillCounts ==
  ASSUME CountType, NEW p \in Roles, Kill(p)
  PROVE  CountType'
  BY BoundsAssumption DEF CountType, Kill

\* Reaping records one of the ways to end.
LEMMA ReapTypes ==
  ASSUME MarkType, WorldType, NEW p \in Owners, Reap(p)
  PROVE  rcpt' \in [{"C", "A", "W"} -> Ways]
<1>1. Child[p] \in {"C", "A", "W"} /\ status[Child[p]] \in Ways
  BY DEF WorldType
<1> QED BY <1>1 DEF MarkType, Reap

LEMMA WorldTypeNext == WorldType /\ [Next]_vars => WorldType'
<1> USE DEF WorldType, Lives, Ways, Ends, Fall, KillGroup, InGroup, Unwinds,
            Attempt, Cause, GrantStage, NextStage, SpawnStage, MaySpawn, Born,
            Grants, Reap, Poisons, Next1, Closed, Eof, Writer, YesNo, Receipt,
            ExitCode, WaitsIn, Pumps, FenceStep, FenceNext, Tried
<1>1. ASSUME WorldType, WHello PROVE WorldType'
  BY <1>1 DEF WHello
<1>2. ASSUME WorldType, WReady PROVE WorldType'
  BY <1>2 DEF WReady
<1>3. ASSUME WorldType, WArm PROVE WorldType'
  BY <1>3 DEF WArm
<1>4. ASSUME WorldType, WExec PROVE WorldType'
  BY <1>4 DEF WExec
<1>5. ASSUME WorldType, WReject PROVE WorldType'
  BY <1>5 DEF WReject
<1>6. ASSUME WorldType, WEnds(FALSE) PROVE WorldType'
  BY <1>6 DEF WEnds, HearsParent, ParentLost, Starved
<1>7. ASSUME WorldType, WEnds(TRUE) PROVE WorldType'
  BY <1>7 DEF WEnds, HearsParent, ParentLost, Starved
<1>8. ASSUME WorldType, ToolForks PROVE WorldType'
  BY <1>8 DEF ToolForks
<1>9. ASSUME WorldType, ToolEnds PROVE WorldType'
  BY <1>9 DEF ToolEnds
<1>10. ASSUME WorldType, KidEnds PROVE WorldType'
  BY <1>10 DEF KidEnds
<1>11. ASSUME WorldType, AHello PROVE WorldType'
  BY <1>11 DEF AHello
<1>12. ASSUME WorldType, APrepared PROVE WorldType'
  BY <1>12 DEF APrepared
<1>13. ASSUME WorldType, AMoves PROVE WorldType'
  BY <1>13 DEF AMoves
<1>14. ASSUME WorldType, AReady PROVE WorldType'
  BY <1>14 DEF AReady
<1>15. ASSUME WorldType, AReaps PROVE WorldType'
  BY <1>15 DEF AReaps
<1>16. ASSUME WorldType, AWaited PROVE WorldType'
  BY <1>16 DEF AWaited
<1>17. ASSUME WorldType, ASettleNoChild PROVE WorldType'
  BY <1>17 DEF ASettleNoChild
<1>18. ASSUME WorldType, ASettleUnmoved PROVE WorldType'
  BY <1>18 DEF ASettleUnmoved
<1>19. ASSUME WorldType, ASettleChild PROVE WorldType'
  BY <1>19 DEF ASettleChild
<1>20. ASSUME WorldType, AWaitsW PROVE WorldType'
  BY <1>20 DEF AWaitsW
<1>21. ASSUME WorldType, ADrained PROVE WorldType'
  BY <1>21 DEF ADrained
<1>22. ASSUME WorldType, AWorkDone PROVE WorldType'
  BY <1>22 DEF AWorkDone, AProducers
<1>23. ASSUME WorldType, AGroupLost PROVE WorldType'
  BY <1>23 DEF AGroupLost
<1>24. ASSUME WorldType, AExits PROVE WorldType'
  BY <1>24 DEF AExits
<1>25. ASSUME WorldType, CHello PROVE WorldType'
  BY <1>25 DEF CHello
<1>26. ASSUME WorldType, CConfig PROVE WorldType'
  BY <1>26 DEF CConfig
<1>27. ASSUME WorldType, CAdmitsAnchor PROVE WorldType'
  BY <1>27 DEF CAdmitsAnchor
<1>28. ASSUME WorldType, CPrepared PROVE WorldType'
  BY <1>28 DEF CPrepared
<1>29. ASSUME WorldType, CReady PROVE WorldType'
  BY <1>29 DEF CReady
<1>30. ASSUME WorldType, CWorkDone PROVE WorldType'
  BY <1>30 DEF CWorkDone
<1>31. ASSUME WorldType, CSettle PROVE WorldType'
  BY <1>31 DEF CSettle
<1>32. ASSUME WorldType, CTerminates PROVE WorldType'
  BY <1>32 DEF CTerminates, GroupEmpty
<1>33. ASSUME WorldType, CProbes PROVE WorldType'
  BY <1>33 DEF CProbes, GroupEmpty
<1>34. ASSUME WorldType, CConfirms PROVE WorldType'
  BY <1>34 DEF CConfirms
<1>35. ASSUME WorldType, CTerminal PROVE WorldType'
  BY <1>35 DEF CTerminal
<1>36. ASSUME WorldType, CKillsAnchor PROVE WorldType'
  BY <1>36 DEF CKillsAnchor
<1>37. ASSUME WorldType, CReaps PROVE WorldType'
  BY <1>37 DEF CReaps
<1>38. ASSUME WorldType, CSeals PROVE WorldType'
  BY <1>38 DEF CSeals, CProducers, SourcesEnded
<1>39. ASSUME WorldType, CPublishes PROVE WorldType'
  BY <1>39 DEF CPublishes
<1>40. ASSUME WorldType, CPublishesLate PROVE WorldType'
  BY <1>40 DEF CPublishesLate
<1>41. ASSUME WorldType, CRelays PROVE WorldType'
  BY <1>41 DEF CRelays
<1>42. ASSUME WorldType, CReports PROVE WorldType'
  BY <1>42 DEF CReports, NoTarget
<1>43. ASSUME WorldType, CExits PROVE WorldType'
  BY <1>43 DEF CExits
<1>44. ASSUME WorldType, OConfig PROVE WorldType'
  BY <1>44 DEF OConfig
<1>45. ASSUME WorldType, OPrepared PROVE WorldType'
  BY <1>45 DEF OPrepared
<1>46. ASSUME WorldType, OWaited PROVE WorldType'
  BY <1>46 DEF OWaited
<1>47. ASSUME WorldType, OSettle PROVE WorldType'
  BY <1>47 DEF OSettle
<1>48. ASSUME WorldType, ODrained PROVE WorldType'
  BY <1>48 DEF ODrained
<1>49. ASSUME WorldType, OWaitsC PROVE WorldType'
  BY <1>49 DEF OWaitsC
<1>50. ASSUME WorldType, OPublishes PROVE WorldType'
  BY <1>50 DEF OPublishes, Complete, Finality, Tag
<1>51. ASSUME WorldType, NEW t \in Tags, AFrame(t) PROVE WorldType'
  BY <1>51 DEF AFrame, AAdmits
<1>52. ASSUME WorldType, NEW t \in Tags, AGroup(t) PROVE WorldType'
  BY <1>52 DEF AGroup
<1>53. ASSUME WorldType, NEW t \in Tags, CFrame(t) PROVE WorldType'
  BY <1>53 DEF CFrame, CAdmits
<1>54. ASSUME WorldType, NEW t \in Tags, OFrame(t) PROVE WorldType'
  BY <1>54 DEF OFrame, OAdmits, TerminalFits
<1>55. ASSUME WorldType, NEW p \in Owners, Spawn(p) PROVE WorldType'
  BY <1>55 DEF Spawn
<1>56. ASSUME WorldType, NEW p \in Owners, Grant(p) PROVE WorldType'
  <2> HIDE DEF Attempt, Cause, GrantStage
  <2> QED BY <1>56, AttemptFrame DEF Grant
<1>57. ASSUME WorldType, NEW p \in Owners, Unwind(p) PROVE WorldType'
  BY <1>57 DEF Unwind, HearsParent, ParentLost, Starved, Stopped, Unarmed
<1>58. ASSUME WorldType, NEW p \in Owners, Stop(p) PROVE WorldType'
  BY <1>58 DEF Stop, HearsParent, Stopped
<1>59. ASSUME WorldType, NEW p \in Owners, DrainPoisoned(p) PROVE WorldType'
  BY <1>59 DEF DrainPoisoned
<1>60. ASSUME WorldType, NEW p \in Owners, SpawnLost(p) PROVE WorldType'
  BY <1>60 DEF SpawnLost
<1>61. ASSUME WorldType, NEW p \in Owners, GrantLost(p) PROVE WorldType'
  <2> HIDE DEF Attempt, Cause, GrantStage
  <2> QED BY <1>61, AttemptFrame DEF GrantLost
<1>62. ASSUME WorldType, NEW p \in Owners, BodyFault(p) PROVE WorldType'
  BY <1>62 DEF BodyFault
<1>63. ASSUME WorldType, NEW p \in Owners, CleanupFault(p) PROVE WorldType'
  BY <1>63 DEF CleanupFault
<1>64. ASSUME WorldType, NEW p \in Owners, Cutoff(p) PROVE WorldType'
  BY <1>64 DEF Cutoff
<1>65. ASSUME WorldType, NEW p \in Roles, Kill(p) PROVE WorldType'
  BY <1>65 DEF Kill
<1>66. ASSUME WorldType, Deadline PROVE WorldType'
  BY <1>66 DEF Deadline
<1>67. ASSUME WorldType, CPublishFails PROVE WorldType'
  BY <1>67 DEF CPublishFails
<1>68. ASSUME WorldType, Finished PROVE WorldType'
  BY <1>68 DEF Finished, vars
<1>69. ASSUME WorldType, UNCHANGED vars PROVE WorldType'
  BY <1>69 DEF vars
<1> HIDE DEF WorldType
<1> QED BY <1>1, <1>2, <1>3, <1>4, <1>5, <1>6, <1>7, <1>8, <1>9, <1>10, <1>11,
     <1>12, <1>13, <1>14, <1>15, <1>16, <1>17, <1>18, <1>19, <1>20, <1>21,
     <1>22, <1>23, <1>24, <1>25, <1>26, <1>27, <1>28, <1>29, <1>30, <1>31,
     <1>32, <1>33, <1>34, <1>35, <1>36, <1>37, <1>38, <1>39, <1>40, <1>41,
     <1>42, <1>43, <1>44, <1>45, <1>46, <1>47, <1>48, <1>49, <1>50, <1>51,
     <1>52, <1>53, <1>54, <1>55, <1>56, <1>57, <1>58, <1>59, <1>60, <1>61,
     <1>62, <1>63, <1>64, <1>65, <1>66, <1>67, <1>68, <1>69
  DEF Next, Worker, Tool, Anchor, Custodian, Outer, Shared, Trouble

LEMMA WireTypeNext == WireType /\ [Next]_vars => WireType'
<1> USE DEF WireType, Ends, Fall, KillGroup, InGroup, Unwinds, Attempt, Cause,
            GrantStage, NextStage, SpawnStage, MaySpawn, Born, Grants, Reap,
            Poisons, Next1, Closed, Eof, Writer, YesNo, Receipt, ExitCode,
            WaitsIn, Pumps, FenceStep, FenceNext, Tried
<1>1. ASSUME WireType, WHello PROVE WireType'
  BY <1>1 DEF WHello
<1>2. ASSUME WireType, WReady PROVE WireType'
  BY <1>2 DEF WReady
<1>3. ASSUME WireType, WArm PROVE WireType'
  BY <1>3 DEF WArm
<1>4. ASSUME WireType, WExec PROVE WireType'
  BY <1>4 DEF WExec
<1>5. ASSUME WireType, WReject PROVE WireType'
  BY <1>5 DEF WReject
<1>6. ASSUME WireType, WEnds(FALSE) PROVE WireType'
  BY <1>6 DEF WEnds, HearsParent, ParentLost, Starved
<1>7. ASSUME WireType, WEnds(TRUE) PROVE WireType'
  BY <1>7 DEF WEnds, HearsParent, ParentLost, Starved
<1>8. ASSUME WireType, ToolForks PROVE WireType'
  BY <1>8 DEF ToolForks
<1>9. ASSUME WireType, ToolEnds PROVE WireType'
  BY <1>9 DEF ToolEnds
<1>10. ASSUME WireType, KidEnds PROVE WireType'
  BY <1>10 DEF KidEnds
<1>11. ASSUME WireType, AHello PROVE WireType'
  BY <1>11 DEF AHello
<1>12. ASSUME WireType, APrepared PROVE WireType'
  BY <1>12 DEF APrepared
<1>13. ASSUME WireType, AMoves PROVE WireType'
  BY <1>13 DEF AMoves
<1>14. ASSUME WireType, AReady PROVE WireType'
  BY <1>14 DEF AReady
<1>15. ASSUME WireType, AReaps PROVE WireType'
  BY <1>15 DEF AReaps
<1>16. ASSUME WireType, AWaited PROVE WireType'
  BY <1>16 DEF AWaited
<1>17. ASSUME WireType, ASettleNoChild PROVE WireType'
  BY <1>17 DEF ASettleNoChild
<1>18. ASSUME WireType, ASettleUnmoved PROVE WireType'
  BY <1>18 DEF ASettleUnmoved
<1>19. ASSUME WireType, ASettleChild PROVE WireType'
  BY <1>19 DEF ASettleChild
<1>20. ASSUME WireType, AWaitsW PROVE WireType'
  BY <1>20 DEF AWaitsW
<1>21. ASSUME WireType, ADrained PROVE WireType'
  BY <1>21 DEF ADrained
<1>22. ASSUME WireType, AWorkDone PROVE WireType'
  BY <1>22 DEF AWorkDone, AProducers
<1>23. ASSUME WireType, AGroupLost PROVE WireType'
  BY <1>23 DEF AGroupLost
<1>24. ASSUME WireType, AExits PROVE WireType'
  BY <1>24 DEF AExits
<1>25. ASSUME WireType, CHello PROVE WireType'
  BY <1>25 DEF CHello
<1>26. ASSUME WireType, CConfig PROVE WireType'
  BY <1>26 DEF CConfig
<1>27. ASSUME WireType, CAdmitsAnchor PROVE WireType'
  BY <1>27 DEF CAdmitsAnchor
<1>28. ASSUME WireType, CPrepared PROVE WireType'
  BY <1>28 DEF CPrepared
<1>29. ASSUME WireType, CReady PROVE WireType'
  BY <1>29 DEF CReady
<1>30. ASSUME WireType, CWorkDone PROVE WireType'
  BY <1>30 DEF CWorkDone
<1>31. ASSUME WireType, CSettle PROVE WireType'
  BY <1>31 DEF CSettle
<1>32. ASSUME WireType, CTerminates PROVE WireType'
  BY <1>32 DEF CTerminates, GroupEmpty
<1>33. ASSUME WireType, CProbes PROVE WireType'
  BY <1>33 DEF CProbes, GroupEmpty
<1>34. ASSUME WireType, CConfirms PROVE WireType'
  BY <1>34 DEF CConfirms
<1>35. ASSUME WireType, CTerminal PROVE WireType'
  BY <1>35 DEF CTerminal
<1>36. ASSUME WireType, CKillsAnchor PROVE WireType'
  BY <1>36 DEF CKillsAnchor
<1>37. ASSUME WireType, CReaps PROVE WireType'
  BY <1>37 DEF CReaps
<1>38. ASSUME WireType, CSeals PROVE WireType'
  BY <1>38 DEF CSeals, CProducers, SourcesEnded
<1>39. ASSUME WireType, CPublishes PROVE WireType'
  BY <1>39 DEF CPublishes
<1>40. ASSUME WireType, CPublishesLate PROVE WireType'
  BY <1>40 DEF CPublishesLate
<1>41. ASSUME WireType, CRelays PROVE WireType'
  BY <1>41 DEF CRelays
<1>42. ASSUME WireType, CReports PROVE WireType'
  BY <1>42 DEF CReports, NoTarget
<1>43. ASSUME WireType, CExits PROVE WireType'
  BY <1>43 DEF CExits
<1>44. ASSUME WireType, OConfig PROVE WireType'
  BY <1>44 DEF OConfig
<1>45. ASSUME WireType, OPrepared PROVE WireType'
  BY <1>45 DEF OPrepared
<1>46. ASSUME WireType, OWaited PROVE WireType'
  BY <1>46 DEF OWaited
<1>47. ASSUME WireType, OSettle PROVE WireType'
  <2>1. CASE UNCHANGED wires
    BY <1>47, <2>1 DEF OSettle
  <2>2. CASE Sends("OC", "STOP") /\ shut' = shut \cup {"OC"}
    BY <1>47, <2>2 DEF OSettle
  <2> QED BY <1>47, <2>1, <2>2 DEF OSettle
<1>48. ASSUME WireType, ODrained PROVE WireType'
  BY <1>48 DEF ODrained
<1>49. ASSUME WireType, OWaitsC PROVE WireType'
  BY <1>49 DEF OWaitsC
<1>50. ASSUME WireType, OPublishes PROVE WireType'
  BY <1>50 DEF OPublishes, Complete, Finality, Tag
<1>51. ASSUME WireType, NEW t \in Tags, AFrame(t) PROVE WireType'
  BY <1>51 DEF AFrame, AAdmits
<1>52. ASSUME WireType, NEW t \in Tags, AGroup(t) PROVE WireType'
  BY <1>52 DEF AGroup
<1>53. ASSUME WireType, NEW t \in Tags, CFrame(t) PROVE WireType'
  BY <1>53 DEF CFrame, CAdmits
<1>54. ASSUME WireType, NEW t \in Tags, OFrame(t) PROVE WireType'
  BY <1>54 DEF OFrame, OAdmits, TerminalFits
<1>55. ASSUME WireType, NEW p \in Owners, Spawn(p) PROVE WireType'
  BY <1>55 DEF Spawn
<1>56. ASSUME WireType, NEW p \in Owners, Grant(p) PROVE WireType'
  <2> HIDE DEF Attempt, Cause, GrantStage
  <2> QED BY <1>56, AttemptWires DEF Grant
<1>57. ASSUME WireType, NEW p \in Owners, Unwind(p) PROVE WireType'
  BY <1>57 DEF Unwind, HearsParent, ParentLost, Starved, Stopped, Unarmed
<1>58. ASSUME WireType, NEW p \in Owners, Stop(p) PROVE WireType'
  BY <1>58 DEF Stop, HearsParent, Stopped
<1>59. ASSUME WireType, NEW p \in Owners, DrainPoisoned(p) PROVE WireType'
  BY <1>59 DEF DrainPoisoned
<1>60. ASSUME WireType, NEW p \in Owners, SpawnLost(p) PROVE WireType'
  BY <1>60 DEF SpawnLost
<1>61. ASSUME WireType, NEW p \in Owners, GrantLost(p) PROVE WireType'
  BY <1>61 DEF GrantLost
<1>62. ASSUME WireType, NEW p \in Owners, BodyFault(p) PROVE WireType'
  BY <1>62 DEF BodyFault
<1>63. ASSUME WireType, NEW p \in Owners, CleanupFault(p) PROVE WireType'
  BY <1>63 DEF CleanupFault
<1>64. ASSUME WireType, NEW p \in Owners, Cutoff(p) PROVE WireType'
  BY <1>64 DEF Cutoff
<1>65. ASSUME WireType, NEW p \in Roles, Kill(p) PROVE WireType'
  BY <1>65 DEF Kill
<1>66. ASSUME WireType, Deadline PROVE WireType'
  BY <1>66 DEF Deadline
<1>67. ASSUME WireType, CPublishFails PROVE WireType'
  BY <1>67 DEF CPublishFails
<1>68. ASSUME WireType, Finished PROVE WireType'
  BY <1>68 DEF Finished, vars
<1>69. ASSUME WireType, UNCHANGED vars PROVE WireType'
  BY <1>69 DEF vars
<1> HIDE DEF WireType
<1> QED BY <1>1, <1>2, <1>3, <1>4, <1>5, <1>6, <1>7, <1>8, <1>9, <1>10, <1>11,
     <1>12, <1>13, <1>14, <1>15, <1>16, <1>17, <1>18, <1>19, <1>20, <1>21,
     <1>22, <1>23, <1>24, <1>25, <1>26, <1>27, <1>28, <1>29, <1>30, <1>31,
     <1>32, <1>33, <1>34, <1>35, <1>36, <1>37, <1>38, <1>39, <1>40, <1>41,
     <1>42, <1>43, <1>44, <1>45, <1>46, <1>47, <1>48, <1>49, <1>50, <1>51,
     <1>52, <1>53, <1>54, <1>55, <1>56, <1>57, <1>58, <1>59, <1>60, <1>61,
     <1>62, <1>63, <1>64, <1>65, <1>66, <1>67, <1>68, <1>69
  DEF Next, Worker, Tool, Anchor, Custodian, Outer, Shared, Trouble

LEMMA StageTypeNext == StageType /\ [Next]_vars => StageType'
<1> USE DEF StageType, Bodies, Tails, Ends, Fall, KillGroup, InGroup, Unwinds,
            Attempt, Cause, GrantStage, NextStage, SpawnStage, MaySpawn, Born,
            Grants, Reap, Poisons, Next1, Closed, Eof, Writer, YesNo, Receipt,
            ExitCode, WaitsIn, Pumps, FenceStep, FenceNext, Tried
<1>1. ASSUME StageType, WHello PROVE StageType'
  BY <1>1 DEF WHello
<1>2. ASSUME StageType, WReady PROVE StageType'
  BY <1>2 DEF WReady
<1>3. ASSUME StageType, WArm PROVE StageType'
  BY <1>3 DEF WArm
<1>4. ASSUME StageType, WExec PROVE StageType'
  BY <1>4 DEF WExec
<1>5. ASSUME StageType, WReject PROVE StageType'
  BY <1>5 DEF WReject
<1>6. ASSUME StageType, WEnds(FALSE) PROVE StageType'
  BY <1>6 DEF WEnds, HearsParent, ParentLost, Starved
<1>7. ASSUME StageType, WEnds(TRUE) PROVE StageType'
  BY <1>7 DEF WEnds, HearsParent, ParentLost, Starved
<1>8. ASSUME StageType, ToolForks PROVE StageType'
  BY <1>8 DEF ToolForks
<1>9. ASSUME StageType, ToolEnds PROVE StageType'
  BY <1>9 DEF ToolEnds
<1>10. ASSUME StageType, KidEnds PROVE StageType'
  BY <1>10 DEF KidEnds
<1>11. ASSUME StageType, AHello PROVE StageType'
  BY <1>11 DEF AHello
<1>12. ASSUME StageType, APrepared PROVE StageType'
  BY <1>12 DEF APrepared
<1>13. ASSUME StageType, AMoves PROVE StageType'
  BY <1>13 DEF AMoves
<1>14. ASSUME StageType, AReady PROVE StageType'
  BY <1>14 DEF AReady
<1>15. ASSUME StageType, AReaps PROVE StageType'
  BY <1>15 DEF AReaps
<1>16. ASSUME StageType, AWaited PROVE StageType'
  BY <1>16 DEF AWaited
<1>17. ASSUME StageType, ASettleNoChild PROVE StageType'
  BY <1>17 DEF ASettleNoChild
<1>18. ASSUME StageType, ASettleUnmoved PROVE StageType'
  BY <1>18 DEF ASettleUnmoved
<1>19. ASSUME StageType, ASettleChild PROVE StageType'
  BY <1>19 DEF ASettleChild
<1>20. ASSUME StageType, AWaitsW PROVE StageType'
  BY <1>20 DEF AWaitsW
<1>21. ASSUME StageType, ADrained PROVE StageType'
  BY <1>21 DEF ADrained
<1>22. ASSUME StageType, AWorkDone PROVE StageType'
  BY <1>22 DEF AWorkDone, AProducers
<1>23. ASSUME StageType, AGroupLost PROVE StageType'
  BY <1>23 DEF AGroupLost
<1>24. ASSUME StageType, AExits PROVE StageType'
  BY <1>24 DEF AExits
<1>25. ASSUME StageType, CHello PROVE StageType'
  BY <1>25 DEF CHello
<1>26. ASSUME StageType, CConfig PROVE StageType'
  BY <1>26 DEF CConfig
<1>27. ASSUME StageType, CAdmitsAnchor PROVE StageType'
  BY <1>27 DEF CAdmitsAnchor
<1>28. ASSUME StageType, CPrepared PROVE StageType'
  BY <1>28 DEF CPrepared
<1>29. ASSUME StageType, CReady PROVE StageType'
  BY <1>29 DEF CReady
<1>30. ASSUME StageType, CWorkDone PROVE StageType'
  BY <1>30 DEF CWorkDone
<1>31. ASSUME StageType, CSettle PROVE StageType'
  BY <1>31 DEF CSettle
<1>32. ASSUME StageType, CTerminates PROVE StageType'
  BY <1>32 DEF CTerminates, GroupEmpty
<1>33. ASSUME StageType, CProbes PROVE StageType'
  BY <1>33 DEF CProbes, GroupEmpty
<1>34. ASSUME StageType, CConfirms PROVE StageType'
  BY <1>34 DEF CConfirms
<1>35. ASSUME StageType, CTerminal PROVE StageType'
  BY <1>35 DEF CTerminal
<1>36. ASSUME StageType, CKillsAnchor PROVE StageType'
  BY <1>36 DEF CKillsAnchor
<1>37. ASSUME StageType, CReaps PROVE StageType'
  BY <1>37 DEF CReaps
<1>38. ASSUME StageType, CSeals PROVE StageType'
  BY <1>38 DEF CSeals, CProducers, SourcesEnded
<1>39. ASSUME StageType, CPublishes PROVE StageType'
  BY <1>39 DEF CPublishes
<1>40. ASSUME StageType, CPublishesLate PROVE StageType'
  BY <1>40 DEF CPublishesLate
<1>41. ASSUME StageType, CRelays PROVE StageType'
  BY <1>41 DEF CRelays
<1>42. ASSUME StageType, CReports PROVE StageType'
  BY <1>42 DEF CReports, NoTarget
<1>43. ASSUME StageType, CExits PROVE StageType'
  BY <1>43 DEF CExits
<1>44. ASSUME StageType, OConfig PROVE StageType'
  BY <1>44 DEF OConfig
<1>45. ASSUME StageType, OPrepared PROVE StageType'
  BY <1>45 DEF OPrepared
<1>46. ASSUME StageType, OWaited PROVE StageType'
  BY <1>46 DEF OWaited
<1>47. ASSUME StageType, OSettle PROVE StageType'
  BY <1>47 DEF OSettle
<1>48. ASSUME StageType, ODrained PROVE StageType'
  BY <1>48 DEF ODrained
<1>49. ASSUME StageType, OWaitsC PROVE StageType'
  BY <1>49 DEF OWaitsC
<1>50. ASSUME StageType, OPublishes PROVE StageType'
  BY <1>50 DEF OPublishes, Complete, Finality, Tag
<1>51. ASSUME StageType, NEW t \in Tags, AFrame(t) PROVE StageType'
  BY <1>51 DEF AFrame, AAdmits
<1>52. ASSUME StageType, NEW t \in Tags, AGroup(t) PROVE StageType'
  BY <1>52 DEF AGroup
<1>53. ASSUME StageType, NEW t \in Tags, CFrame(t) PROVE StageType'
  BY <1>53 DEF CFrame, CAdmits
<1>54. ASSUME StageType, NEW t \in Tags, OFrame(t) PROVE StageType'
  BY <1>54 DEF OFrame, OAdmits, TerminalFits
<1>55. ASSUME StageType, NEW p \in Owners, Spawn(p) PROVE StageType'
  BY <1>55 DEF Spawn
<1>56. ASSUME StageType, NEW p \in Owners, Grant(p) PROVE StageType'
  <2> HIDE DEF Attempt, Cause, GrantStage
  <2>1. body[p] \in {"prepared", "ready", "create", "run"} /\ UNCHANGED <<tail, has>>
    BY <1>56, AttemptGrant, AttemptFrame DEF Grant
  <2>2. got' \in [Owners -> SUBSET Tags] /\ tried' \subseteq Owners \X {"CREATE", "RUN"}
    BY <1>56, AttemptTypes DEF Grant
  <2> QED BY <1>56, <2>1, <2>2 DEF Grant
<1>57. ASSUME StageType, NEW p \in Owners, Unwind(p) PROVE StageType'
  BY <1>57 DEF Unwind, HearsParent, ParentLost, Starved, Stopped, Unarmed
<1>58. ASSUME StageType, NEW p \in Owners, Stop(p) PROVE StageType'
  BY <1>58 DEF Stop, HearsParent, Stopped
<1>59. ASSUME StageType, NEW p \in Owners, DrainPoisoned(p) PROVE StageType'
  BY <1>59 DEF DrainPoisoned
<1>60. ASSUME StageType, NEW p \in Owners, SpawnLost(p) PROVE StageType'
  BY <1>60 DEF SpawnLost
<1>61. ASSUME StageType, NEW p \in Owners, GrantLost(p) PROVE StageType'
  <2> HIDE DEF Attempt, Cause, GrantStage
  <2>1. UNCHANGED has
    BY <1>61, AttemptFrame DEF GrantLost
  <2>2. got' \in [Owners -> SUBSET Tags] /\ tried' \subseteq Owners \X {"CREATE", "RUN"}
    BY <1>61, AttemptTypes DEF GrantLost
  <2> QED BY <1>61, <2>1, <2>2 DEF GrantLost
<1>62. ASSUME StageType, NEW p \in Owners, BodyFault(p) PROVE StageType'
  BY <1>62 DEF BodyFault
<1>63. ASSUME StageType, NEW p \in Owners, CleanupFault(p) PROVE StageType'
  BY <1>63 DEF CleanupFault
<1>64. ASSUME StageType, NEW p \in Owners, Cutoff(p) PROVE StageType'
  BY <1>64 DEF Cutoff
<1>65. ASSUME StageType, NEW p \in Roles, Kill(p) PROVE StageType'
  BY <1>65 DEF Kill
<1>66. ASSUME StageType, Deadline PROVE StageType'
  BY <1>66 DEF Deadline
<1>67. ASSUME StageType, CPublishFails PROVE StageType'
  BY <1>67 DEF CPublishFails
<1>68. ASSUME StageType, Finished PROVE StageType'
  BY <1>68 DEF Finished, vars
<1>69. ASSUME StageType, UNCHANGED vars PROVE StageType'
  BY <1>69 DEF vars
<1> HIDE DEF StageType
<1> QED BY <1>1, <1>2, <1>3, <1>4, <1>5, <1>6, <1>7, <1>8, <1>9, <1>10, <1>11,
     <1>12, <1>13, <1>14, <1>15, <1>16, <1>17, <1>18, <1>19, <1>20, <1>21,
     <1>22, <1>23, <1>24, <1>25, <1>26, <1>27, <1>28, <1>29, <1>30, <1>31,
     <1>32, <1>33, <1>34, <1>35, <1>36, <1>37, <1>38, <1>39, <1>40, <1>41,
     <1>42, <1>43, <1>44, <1>45, <1>46, <1>47, <1>48, <1>49, <1>50, <1>51,
     <1>52, <1>53, <1>54, <1>55, <1>56, <1>57, <1>58, <1>59, <1>60, <1>61,
     <1>62, <1>63, <1>64, <1>65, <1>66, <1>67, <1>68, <1>69
  DEF Next, Worker, Tool, Anchor, Custodian, Outer, Shared, Trouble

LEMMA MarkTypeNext == MarkType /\ WorldType /\ [Next]_vars => MarkType'
<1> USE DEF MarkType, WorldType, Ways, Ends, Fall, KillGroup, InGroup,
            Unwinds, Attempt, Cause, GrantStage, NextStage, SpawnStage,
            MaySpawn, Born, Grants, Reap, Poisons, Next1, Closed, Eof, Writer,
            YesNo, Receipt, ExitCode, WaitsIn, Pumps, FenceStep, FenceNext,
            Tried
<1> DEFINE Given == MarkType /\ WorldType
<1>1. ASSUME Given, WHello PROVE MarkType'
  BY <1>1 DEF WHello
<1>2. ASSUME Given, WReady PROVE MarkType'
  BY <1>2 DEF WReady
<1>3. ASSUME Given, WArm PROVE MarkType'
  BY <1>3 DEF WArm
<1>4. ASSUME Given, WExec PROVE MarkType'
  BY <1>4 DEF WExec
<1>5. ASSUME Given, WReject PROVE MarkType'
  BY <1>5 DEF WReject
<1>6. ASSUME Given, WEnds(FALSE) PROVE MarkType'
  BY <1>6 DEF WEnds, HearsParent, ParentLost, Starved
<1>7. ASSUME Given, WEnds(TRUE) PROVE MarkType'
  BY <1>7 DEF WEnds, HearsParent, ParentLost, Starved
<1>8. ASSUME Given, ToolForks PROVE MarkType'
  BY <1>8 DEF ToolForks
<1>9. ASSUME Given, ToolEnds PROVE MarkType'
  BY <1>9 DEF ToolEnds
<1>10. ASSUME Given, KidEnds PROVE MarkType'
  BY <1>10 DEF KidEnds
<1>11. ASSUME Given, AHello PROVE MarkType'
  BY <1>11 DEF AHello
<1>12. ASSUME Given, APrepared PROVE MarkType'
  BY <1>12 DEF APrepared
<1>13. ASSUME Given, AMoves PROVE MarkType'
  BY <1>13 DEF AMoves
<1>14. ASSUME Given, AReady PROVE MarkType'
  BY <1>14 DEF AReady
<1>15. ASSUME Given, AReaps PROVE MarkType'
  BY <1>15 DEF AReaps
<1>16. ASSUME Given, AWaited PROVE MarkType'
  BY <1>16 DEF AWaited
<1>17. ASSUME Given, ASettleNoChild PROVE MarkType'
  BY <1>17 DEF ASettleNoChild
<1>18. ASSUME Given, ASettleUnmoved PROVE MarkType'
  BY <1>18 DEF ASettleUnmoved
<1>19. ASSUME Given, ASettleChild PROVE MarkType'
  BY <1>19 DEF ASettleChild
<1>20. ASSUME Given, AWaitsW PROVE MarkType'
  <2>1. UNCHANGED rcpt \/ Reap("A")
    BY <1>20 DEF AWaitsW
  <2>2. rcpt' \in [{"C", "A", "W"} -> Ways]
    BY <1>20, <2>1, ReapTypes
  <2> QED BY <1>20, <2>2 DEF AWaitsW
<1>21. ASSUME Given, ADrained PROVE MarkType'
  BY <1>21 DEF ADrained
<1>22. ASSUME Given, AWorkDone PROVE MarkType'
  BY <1>22 DEF AWorkDone, AProducers
<1>23. ASSUME Given, AGroupLost PROVE MarkType'
  BY <1>23 DEF AGroupLost
<1>24. ASSUME Given, AExits PROVE MarkType'
  BY <1>24 DEF AExits
<1>25. ASSUME Given, CHello PROVE MarkType'
  BY <1>25 DEF CHello
<1>26. ASSUME Given, CConfig PROVE MarkType'
  BY <1>26 DEF CConfig
<1>27. ASSUME Given, CAdmitsAnchor PROVE MarkType'
  BY <1>27 DEF CAdmitsAnchor
<1>28. ASSUME Given, CPrepared PROVE MarkType'
  BY <1>28 DEF CPrepared
<1>29. ASSUME Given, CReady PROVE MarkType'
  BY <1>29 DEF CReady
<1>30. ASSUME Given, CWorkDone PROVE MarkType'
  BY <1>30 DEF CWorkDone
<1>31. ASSUME Given, CSettle PROVE MarkType'
  BY <1>31 DEF CSettle
<1>32. ASSUME Given, CTerminates PROVE MarkType'
  BY <1>32 DEF CTerminates, GroupEmpty
<1>33. ASSUME Given, CProbes PROVE MarkType'
  BY <1>33 DEF CProbes, GroupEmpty
<1>34. ASSUME Given, CConfirms PROVE MarkType'
  BY <1>34 DEF CConfirms
<1>35. ASSUME Given, CTerminal PROVE MarkType'
  BY <1>35 DEF CTerminal
<1>36. ASSUME Given, CKillsAnchor PROVE MarkType'
  BY <1>36 DEF CKillsAnchor
<1>37. ASSUME Given, CReaps PROVE MarkType'
  <2>1. UNCHANGED rcpt \/ Reap("C")
    BY <1>37 DEF CReaps
  <2>2. rcpt' \in [{"C", "A", "W"} -> Ways]
    BY <1>37, <2>1, ReapTypes
  <2> QED BY <1>37, <2>2 DEF CReaps
<1>38. ASSUME Given, CSeals PROVE MarkType'
  BY <1>38 DEF CSeals, CProducers, SourcesEnded
<1>39. ASSUME Given, CPublishes PROVE MarkType'
  BY <1>39 DEF CPublishes
<1>40. ASSUME Given, CPublishesLate PROVE MarkType'
  BY <1>40 DEF CPublishesLate
<1>41. ASSUME Given, CRelays PROVE MarkType'
  BY <1>41 DEF CRelays
<1>42. ASSUME Given, CReports PROVE MarkType'
  BY <1>42 DEF CReports, NoTarget
<1>43. ASSUME Given, CExits PROVE MarkType'
  BY <1>43 DEF CExits
<1>44. ASSUME Given, OConfig PROVE MarkType'
  BY <1>44 DEF OConfig
<1>45. ASSUME Given, OPrepared PROVE MarkType'
  BY <1>45 DEF OPrepared
<1>46. ASSUME Given, OWaited PROVE MarkType'
  BY <1>46 DEF OWaited
<1>47. ASSUME Given, OSettle PROVE MarkType'
  BY <1>47 DEF OSettle
<1>48. ASSUME Given, ODrained PROVE MarkType'
  BY <1>48 DEF ODrained
<1>49. ASSUME Given, OWaitsC PROVE MarkType'
  <2>1. UNCHANGED rcpt \/ Reap("O")
    BY <1>49 DEF OWaitsC
  <2>2. rcpt' \in [{"C", "A", "W"} -> Ways]
    BY <1>49, <2>1, ReapTypes
  <2> QED BY <1>49, <2>2 DEF OWaitsC
<1>50. ASSUME Given, OPublishes PROVE MarkType'
  BY <1>50 DEF OPublishes, Complete, Finality, Tag
<1>51. ASSUME Given, NEW t \in Tags, AFrame(t) PROVE MarkType'
  BY <1>51 DEF AFrame, AAdmits
<1>52. ASSUME Given, NEW t \in Tags, AGroup(t) PROVE MarkType'
  BY <1>52 DEF AGroup
<1>53. ASSUME Given, NEW t \in Tags, CFrame(t) PROVE MarkType'
  BY <1>53 DEF CFrame, CAdmits
<1>54. ASSUME Given, NEW t \in Tags, OFrame(t) PROVE MarkType'
  BY <1>54 DEF OFrame, OAdmits, TerminalFits
<1>55. ASSUME Given, NEW p \in Owners, Spawn(p) PROVE MarkType'
  BY <1>55 DEF Spawn
<1>56. ASSUME Given, NEW p \in Owners, Grant(p) PROVE MarkType'
  <2> HIDE DEF Attempt, Cause, GrantStage
  <2> QED BY <1>56, AttemptFrame DEF Grant
<1>57. ASSUME Given, NEW p \in Owners, Unwind(p) PROVE MarkType'
  BY <1>57 DEF Unwind, HearsParent, ParentLost, Starved, Stopped, Unarmed
<1>58. ASSUME Given, NEW p \in Owners, Stop(p) PROVE MarkType'
  BY <1>58 DEF Stop, HearsParent, Stopped
<1>59. ASSUME Given, NEW p \in Owners, DrainPoisoned(p) PROVE MarkType'
  BY <1>59 DEF DrainPoisoned
<1>60. ASSUME Given, NEW p \in Owners, SpawnLost(p) PROVE MarkType'
  BY <1>60 DEF SpawnLost
<1>61. ASSUME Given, NEW p \in Owners, GrantLost(p) PROVE MarkType'
  <2> HIDE DEF Attempt, Cause, GrantStage
  <2> QED BY <1>61, AttemptFrame DEF GrantLost
<1>62. ASSUME Given, NEW p \in Owners, BodyFault(p) PROVE MarkType'
  BY <1>62 DEF BodyFault
<1>63. ASSUME Given, NEW p \in Owners, CleanupFault(p) PROVE MarkType'
  BY <1>63 DEF CleanupFault
<1>64. ASSUME Given, NEW p \in Owners, Cutoff(p) PROVE MarkType'
  BY <1>64 DEF Cutoff
<1>65. ASSUME Given, NEW p \in Roles, Kill(p) PROVE MarkType'
  BY <1>65 DEF Kill
<1>66. ASSUME Given, Deadline PROVE MarkType'
  BY <1>66 DEF Deadline
<1>67. ASSUME Given, CPublishFails PROVE MarkType'
  BY <1>67 DEF CPublishFails
<1>68. ASSUME Given, Finished PROVE MarkType'
  BY <1>68 DEF Finished, vars
<1>69. ASSUME Given, UNCHANGED vars PROVE MarkType'
  BY <1>69 DEF vars
<1> HIDE DEF MarkType, WorldType
<1> QED BY <1>1, <1>2, <1>3, <1>4, <1>5, <1>6, <1>7, <1>8, <1>9, <1>10, <1>11,
     <1>12, <1>13, <1>14, <1>15, <1>16, <1>17, <1>18, <1>19, <1>20, <1>21,
     <1>22, <1>23, <1>24, <1>25, <1>26, <1>27, <1>28, <1>29, <1>30, <1>31,
     <1>32, <1>33, <1>34, <1>35, <1>36, <1>37, <1>38, <1>39, <1>40, <1>41,
     <1>42, <1>43, <1>44, <1>45, <1>46, <1>47, <1>48, <1>49, <1>50, <1>51,
     <1>52, <1>53, <1>54, <1>55, <1>56, <1>57, <1>58, <1>59, <1>60, <1>61,
     <1>62, <1>63, <1>64, <1>65, <1>66, <1>67, <1>68, <1>69
  DEF Next, Worker, Tool, Anchor, Custodian, Outer, Shared, Trouble

LEMMA RecordTypeNext == RecordType /\ MarkType /\ StageType /\ [Next]_vars => RecordType'
<1> USE DEF RecordType, MarkType, StageType, Answers, Kinds, Ways, Ends, Fall,
            KillGroup, InGroup, Unwinds, Attempt, Cause, GrantStage,
            NextStage, SpawnStage, MaySpawn, Born, Grants, Reap, Poisons,
            Next1, Closed, Eof, Writer, YesNo, Receipt, ExitCode, WaitsIn,
            Pumps, FenceStep, FenceNext, Tried
<1> DEFINE Given == RecordType /\ MarkType /\ StageType
<1>1. ASSUME Given, WHello PROVE RecordType'
  BY <1>1 DEF WHello
<1>2. ASSUME Given, WReady PROVE RecordType'
  BY <1>2 DEF WReady
<1>3. ASSUME Given, WArm PROVE RecordType'
  BY <1>3 DEF WArm
<1>4. ASSUME Given, WExec PROVE RecordType'
  BY <1>4 DEF WExec
<1>5. ASSUME Given, WReject PROVE RecordType'
  BY <1>5 DEF WReject
<1>6. ASSUME Given, WEnds(FALSE) PROVE RecordType'
  BY <1>6 DEF WEnds, HearsParent, ParentLost, Starved
<1>7. ASSUME Given, WEnds(TRUE) PROVE RecordType'
  BY <1>7 DEF WEnds, HearsParent, ParentLost, Starved
<1>8. ASSUME Given, ToolForks PROVE RecordType'
  BY <1>8 DEF ToolForks
<1>9. ASSUME Given, ToolEnds PROVE RecordType'
  BY <1>9 DEF ToolEnds
<1>10. ASSUME Given, KidEnds PROVE RecordType'
  BY <1>10 DEF KidEnds
<1>11. ASSUME Given, AHello PROVE RecordType'
  BY <1>11 DEF AHello
<1>12. ASSUME Given, APrepared PROVE RecordType'
  BY <1>12 DEF APrepared
<1>13. ASSUME Given, AMoves PROVE RecordType'
  BY <1>13 DEF AMoves
<1>14. ASSUME Given, AReady PROVE RecordType'
  BY <1>14 DEF AReady
<1>15. ASSUME Given, AReaps PROVE RecordType'
  BY <1>15 DEF AReaps
<1>16. ASSUME Given, AWaited PROVE RecordType'
  BY <1>16 DEF AWaited
<1>17. ASSUME Given, ASettleNoChild PROVE RecordType'
  BY <1>17 DEF ASettleNoChild
<1>18. ASSUME Given, ASettleUnmoved PROVE RecordType'
  BY <1>18 DEF ASettleUnmoved
<1>19. ASSUME Given, ASettleChild PROVE RecordType'
  BY <1>19 DEF ASettleChild
<1>20. ASSUME Given, AWaitsW PROVE RecordType'
  BY <1>20 DEF AWaitsW
<1>21. ASSUME Given, ADrained PROVE RecordType'
  BY <1>21 DEF ADrained
<1>22. ASSUME Given, AWorkDone PROVE RecordType'
  BY <1>22 DEF AWorkDone, AProducers
<1>23. ASSUME Given, AGroupLost PROVE RecordType'
  BY <1>23 DEF AGroupLost
<1>24. ASSUME Given, AExits PROVE RecordType'
  BY <1>24 DEF AExits
<1>25. ASSUME Given, CHello PROVE RecordType'
  BY <1>25 DEF CHello
<1>26. ASSUME Given, CConfig PROVE RecordType'
  BY <1>26 DEF CConfig
<1>27. ASSUME Given, CAdmitsAnchor PROVE RecordType'
  BY <1>27 DEF CAdmitsAnchor
<1>28. ASSUME Given, CPrepared PROVE RecordType'
  BY <1>28 DEF CPrepared
<1>29. ASSUME Given, CReady PROVE RecordType'
  BY <1>29 DEF CReady
<1>30. ASSUME Given, CWorkDone PROVE RecordType'
  BY <1>30 DEF CWorkDone
<1>31. ASSUME Given, CSettle PROVE RecordType'
  BY <1>31 DEF CSettle
<1>32. ASSUME Given, CTerminates PROVE RecordType'
  BY <1>32 DEF CTerminates, GroupEmpty
<1>33. ASSUME Given, CProbes PROVE RecordType'
  BY <1>33 DEF CProbes, GroupEmpty
<1>34. ASSUME Given, CConfirms PROVE RecordType'
  BY <1>34 DEF CConfirms
<1>35. ASSUME Given, CTerminal PROVE RecordType'
  BY <1>35 DEF CTerminal
<1>36. ASSUME Given, CKillsAnchor PROVE RecordType'
  BY <1>36 DEF CKillsAnchor
<1>37. ASSUME Given, CReaps PROVE RecordType'
  BY <1>37 DEF CReaps
<1>38. ASSUME Given, CSeals PROVE RecordType'
  BY <1>38 DEF CSeals, CProducers, SourcesEnded
<1>39. ASSUME Given, CPublishes PROVE RecordType'
  BY <1>39 DEF CPublishes
<1>40. ASSUME Given, CPublishesLate PROVE RecordType'
  BY <1>40 DEF CPublishesLate
<1>41. ASSUME Given, CRelays PROVE RecordType'
  BY <1>41 DEF CRelays
<1>42. ASSUME Given, CReports PROVE RecordType'
  BY <1>42 DEF CReports, NoTarget
<1>43. ASSUME Given, CExits PROVE RecordType'
  BY <1>43 DEF CExits
<1>44. ASSUME Given, OConfig PROVE RecordType'
  BY <1>44 DEF OConfig
<1>45. ASSUME Given, OPrepared PROVE RecordType'
  BY <1>45 DEF OPrepared
<1>46. ASSUME Given, OWaited PROVE RecordType'
  BY <1>46 DEF OWaited
<1>47. ASSUME Given, OSettle PROVE RecordType'
  BY <1>47 DEF OSettle
<1>48. ASSUME Given, ODrained PROVE RecordType'
  BY <1>48 DEF ODrained
<1>49. ASSUME Given, OWaitsC PROVE RecordType'
  BY <1>49 DEF OWaitsC
<1>50. ASSUME Given, OPublishes PROVE RecordType'
  BY <1>50 DEF OPublishes, Complete, Finality, Tag
<1>51. ASSUME Given, NEW t \in Tags, AFrame(t) PROVE RecordType'
  BY <1>51 DEF AFrame, AAdmits
<1>52. ASSUME Given, NEW t \in Tags, AGroup(t) PROVE RecordType'
  BY <1>52 DEF AGroup
<1>53. ASSUME Given, NEW t \in Tags, CFrame(t) PROVE RecordType'
  BY <1>53 DEF CFrame, CAdmits
<1>54. ASSUME Given, NEW t \in Tags, OFrame(t) PROVE RecordType'
  BY <1>54 DEF OFrame, OAdmits, TerminalFits
<1>55. ASSUME Given, NEW p \in Owners, Spawn(p) PROVE RecordType'
  BY <1>55 DEF Spawn
<1>56. ASSUME Given, NEW p \in Owners, Grant(p) PROVE RecordType'
  <2> HIDE DEF Attempt, Cause, GrantStage
  <2>1. UNCHANGED <<work, absent, seal, fence, relay, term, verdict>>
    <3> HIDE DEF RecordType, MarkType, StageType
    <3> QED BY <1>56, AttemptFrame DEF Grant
  <2> QED BY <1>56, <2>1
<1>57. ASSUME Given, NEW p \in Owners, Unwind(p) PROVE RecordType'
  BY <1>57 DEF Unwind, HearsParent, ParentLost, Starved, Stopped, Unarmed
<1>58. ASSUME Given, NEW p \in Owners, Stop(p) PROVE RecordType'
  BY <1>58 DEF Stop, HearsParent, Stopped
<1>59. ASSUME Given, NEW p \in Owners, DrainPoisoned(p) PROVE RecordType'
  BY <1>59 DEF DrainPoisoned
<1>60. ASSUME Given, NEW p \in Owners, SpawnLost(p) PROVE RecordType'
  BY <1>60 DEF SpawnLost
<1>61. ASSUME Given, NEW p \in Owners, GrantLost(p) PROVE RecordType'
  <2> HIDE DEF Attempt, Cause, GrantStage
  <2>1. UNCHANGED <<work, absent, seal, fence, relay, term, verdict>>
    <3> HIDE DEF RecordType, MarkType, StageType
    <3> QED BY <1>61, AttemptFrame DEF GrantLost
  <2> QED BY <1>61, <2>1
<1>62. ASSUME Given, NEW p \in Owners, BodyFault(p) PROVE RecordType'
  BY <1>62 DEF BodyFault
<1>63. ASSUME Given, NEW p \in Owners, CleanupFault(p) PROVE RecordType'
  BY <1>63 DEF CleanupFault
<1>64. ASSUME Given, NEW p \in Owners, Cutoff(p) PROVE RecordType'
  BY <1>64 DEF Cutoff
<1>65. ASSUME Given, NEW p \in Roles, Kill(p) PROVE RecordType'
  BY <1>65 DEF Kill
<1>66. ASSUME Given, Deadline PROVE RecordType'
  BY <1>66 DEF Deadline
<1>67. ASSUME Given, CPublishFails PROVE RecordType'
  BY <1>67 DEF CPublishFails
<1>68. ASSUME Given, Finished PROVE RecordType'
  BY <1>68 DEF Finished, vars
<1>69. ASSUME Given, UNCHANGED vars PROVE RecordType'
  BY <1>69 DEF vars
<1> HIDE DEF RecordType, MarkType, StageType
<1> QED BY <1>1, <1>2, <1>3, <1>4, <1>5, <1>6, <1>7, <1>8, <1>9, <1>10, <1>11,
     <1>12, <1>13, <1>14, <1>15, <1>16, <1>17, <1>18, <1>19, <1>20, <1>21,
     <1>22, <1>23, <1>24, <1>25, <1>26, <1>27, <1>28, <1>29, <1>30, <1>31,
     <1>32, <1>33, <1>34, <1>35, <1>36, <1>37, <1>38, <1>39, <1>40, <1>41,
     <1>42, <1>43, <1>44, <1>45, <1>46, <1>47, <1>48, <1>49, <1>50, <1>51,
     <1>52, <1>53, <1>54, <1>55, <1>56, <1>57, <1>58, <1>59, <1>60, <1>61,
     <1>62, <1>63, <1>64, <1>65, <1>66, <1>67, <1>68, <1>69
  DEF Next, Worker, Tool, Anchor, Custodian, Outer, Shared, Trouble

LEMMA CountTypeNext == CountType /\ [Next]_vars => CountType'
<1> USE DEF CountType
<1>1. ASSUME CountType, WHello PROVE CountType'
  BY <1>1 DEF WHello
<1>2. ASSUME CountType, WReady PROVE CountType'
  BY <1>2 DEF WReady
<1>3. ASSUME CountType, WArm PROVE CountType'
  BY <1>3 DEF WArm
<1>4. ASSUME CountType, WExec PROVE CountType'
  BY <1>4 DEF WExec
<1>5. ASSUME CountType, WReject PROVE CountType'
  BY <1>5 DEF WReject
<1>6. ASSUME CountType, WEnds(FALSE) PROVE CountType'
  BY <1>6 DEF WEnds, HearsParent, ParentLost, Starved
<1>7. ASSUME CountType, WEnds(TRUE) PROVE CountType'
  BY <1>7, FaultCounts DEF WEnds
<1>8. ASSUME CountType, ToolForks PROVE CountType'
  BY <1>8 DEF ToolForks
<1>9. ASSUME CountType, ToolEnds PROVE CountType'
  BY <1>9 DEF ToolEnds
<1>10. ASSUME CountType, KidEnds PROVE CountType'
  BY <1>10 DEF KidEnds
<1>11. ASSUME CountType, AHello PROVE CountType'
  BY <1>11 DEF AHello
<1>12. ASSUME CountType, APrepared PROVE CountType'
  BY <1>12 DEF APrepared
<1>13. ASSUME CountType, AMoves PROVE CountType'
  BY <1>13 DEF AMoves
<1>14. ASSUME CountType, AReady PROVE CountType'
  BY <1>14 DEF AReady
<1>15. ASSUME CountType, AReaps PROVE CountType'
  BY <1>15 DEF AReaps
<1>16. ASSUME CountType, AWaited PROVE CountType'
  BY <1>16 DEF AWaited
<1>17. ASSUME CountType, ASettleNoChild PROVE CountType'
  BY <1>17 DEF ASettleNoChild
<1>18. ASSUME CountType, ASettleUnmoved PROVE CountType'
  BY <1>18 DEF ASettleUnmoved
<1>19. ASSUME CountType, ASettleChild PROVE CountType'
  BY <1>19 DEF ASettleChild
<1>20. ASSUME CountType, AWaitsW PROVE CountType'
  BY <1>20 DEF AWaitsW
<1>21. ASSUME CountType, ADrained PROVE CountType'
  BY <1>21 DEF ADrained
<1>22. ASSUME CountType, AWorkDone PROVE CountType'
  BY <1>22 DEF AWorkDone, AProducers
<1>23. ASSUME CountType, AGroupLost PROVE CountType'
  BY <1>23 DEF AGroupLost
<1>24. ASSUME CountType, AExits PROVE CountType'
  BY <1>24 DEF AExits
<1>25. ASSUME CountType, CHello PROVE CountType'
  BY <1>25 DEF CHello
<1>26. ASSUME CountType, CConfig PROVE CountType'
  BY <1>26 DEF CConfig
<1>27. ASSUME CountType, CAdmitsAnchor PROVE CountType'
  BY <1>27 DEF CAdmitsAnchor
<1>28. ASSUME CountType, CPrepared PROVE CountType'
  BY <1>28 DEF CPrepared
<1>29. ASSUME CountType, CReady PROVE CountType'
  BY <1>29 DEF CReady
<1>30. ASSUME CountType, CWorkDone PROVE CountType'
  BY <1>30 DEF CWorkDone
<1>31. ASSUME CountType, CSettle PROVE CountType'
  BY <1>31 DEF CSettle
<1>32. ASSUME CountType, CTerminates PROVE CountType'
  BY <1>32 DEF CTerminates, GroupEmpty
<1>33. ASSUME CountType, CProbes PROVE CountType'
  BY <1>33 DEF CProbes, GroupEmpty
<1>34. ASSUME CountType, CConfirms PROVE CountType'
  BY <1>34 DEF CConfirms
<1>35. ASSUME CountType, CTerminal PROVE CountType'
  BY <1>35 DEF CTerminal
<1>36. ASSUME CountType, CKillsAnchor PROVE CountType'
  BY <1>36 DEF CKillsAnchor
<1>37. ASSUME CountType, CReaps PROVE CountType'
  BY <1>37 DEF CReaps
<1>38. ASSUME CountType, CSeals PROVE CountType'
  BY <1>38 DEF CSeals, CProducers, SourcesEnded
<1>39. ASSUME CountType, CPublishes PROVE CountType'
  BY <1>39 DEF CPublishes
<1>40. ASSUME CountType, CPublishesLate PROVE CountType'
  BY <1>40 DEF CPublishesLate
<1>41. ASSUME CountType, CRelays PROVE CountType'
  <2>1. UNCHANGED faults \/ Fault
    BY <1>41 DEF CRelays
  <2> QED BY <1>41, <2>1, FaultCounts DEF CRelays
<1>42. ASSUME CountType, CReports PROVE CountType'
  BY <1>42 DEF CReports, NoTarget
<1>43. ASSUME CountType, CExits PROVE CountType'
  BY <1>43 DEF CExits
<1>44. ASSUME CountType, OConfig PROVE CountType'
  BY <1>44 DEF OConfig
<1>45. ASSUME CountType, OPrepared PROVE CountType'
  BY <1>45 DEF OPrepared
<1>46. ASSUME CountType, OWaited PROVE CountType'
  BY <1>46 DEF OWaited
<1>47. ASSUME CountType, OSettle PROVE CountType'
  BY <1>47 DEF OSettle
<1>48. ASSUME CountType, ODrained PROVE CountType'
  BY <1>48 DEF ODrained
<1>49. ASSUME CountType, OWaitsC PROVE CountType'
  BY <1>49 DEF OWaitsC
<1>50. ASSUME CountType, OPublishes PROVE CountType'
  BY <1>50 DEF OPublishes, Complete, Finality, Tag
<1>51. ASSUME CountType, NEW t \in Tags, AFrame(t) PROVE CountType'
  BY <1>51 DEF AFrame, AAdmits
<1>52. ASSUME CountType, NEW t \in Tags, AGroup(t) PROVE CountType'
  BY <1>52 DEF AGroup
<1>53. ASSUME CountType, NEW t \in Tags, CFrame(t) PROVE CountType'
  BY <1>53 DEF CFrame, CAdmits
<1>54. ASSUME CountType, NEW t \in Tags, OFrame(t) PROVE CountType'
  BY <1>54 DEF OFrame, OAdmits, TerminalFits
<1>55. ASSUME CountType, NEW p \in Owners, Spawn(p) PROVE CountType'
  BY <1>55 DEF Spawn
<1>56. ASSUME CountType, NEW p \in Owners, Grant(p) PROVE CountType'
  BY <1>56 DEF Grant, Unwinds, Attempt
<1>57. ASSUME CountType, NEW p \in Owners, Unwind(p) PROVE CountType'
  BY <1>57 DEF Unwind, Unwinds, Attempt
<1>58. ASSUME CountType, NEW p \in Owners, Stop(p) PROVE CountType'
  BY <1>58 DEF Stop, Unwinds, Attempt
<1>59. ASSUME CountType, NEW p \in Owners, DrainPoisoned(p) PROVE CountType'
  BY <1>59 DEF DrainPoisoned
<1>60. ASSUME CountType, NEW p \in Owners, SpawnLost(p) PROVE CountType'
  BY <1>60, FaultCounts DEF SpawnLost
<1>61. ASSUME CountType, NEW p \in Owners, GrantLost(p) PROVE CountType'
  BY <1>61, FaultCounts DEF GrantLost, Unwinds, Attempt
<1>62. ASSUME CountType, NEW p \in Owners, BodyFault(p) PROVE CountType'
  BY <1>62, FaultCounts DEF BodyFault, Unwinds, Attempt
<1>63. ASSUME CountType, NEW p \in Owners, CleanupFault(p) PROVE CountType'
  BY <1>63, FaultCounts DEF CleanupFault
<1>64. ASSUME CountType, NEW p \in Owners, Cutoff(p) PROVE CountType'
  BY <1>64 DEF Cutoff
<1>65. ASSUME CountType, NEW p \in Roles, Kill(p) PROVE CountType'
  BY <1>65, KillCounts
<1>66. ASSUME CountType, Deadline PROVE CountType'
  BY <1>66 DEF Deadline
<1>67. ASSUME CountType, CPublishFails PROVE CountType'
  BY <1>67, FaultCounts DEF CPublishFails
<1>68. ASSUME CountType, Finished PROVE CountType'
  BY <1>68 DEF Finished, vars
<1>69. ASSUME CountType, UNCHANGED vars PROVE CountType'
  BY <1>69 DEF vars
<1> HIDE DEF CountType
<1> QED BY <1>1, <1>2, <1>3, <1>4, <1>5, <1>6, <1>7, <1>8, <1>9, <1>10, <1>11,
     <1>12, <1>13, <1>14, <1>15, <1>16, <1>17, <1>18, <1>19, <1>20, <1>21,
     <1>22, <1>23, <1>24, <1>25, <1>26, <1>27, <1>28, <1>29, <1>30, <1>31,
     <1>32, <1>33, <1>34, <1>35, <1>36, <1>37, <1>38, <1>39, <1>40, <1>41,
     <1>42, <1>43, <1>44, <1>45, <1>46, <1>47, <1>48, <1>49, <1>50, <1>51,
     <1>52, <1>53, <1>54, <1>55, <1>56, <1>57, <1>58, <1>59, <1>60, <1>61,
     <1>62, <1>63, <1>64, <1>65, <1>66, <1>67, <1>68, <1>69
  DEF Next, Worker, Tool, Anchor, Custodian, Outer, Shared, Trouble

-----------------------------------------------------------------------------
Types == WorldType /\ WireType /\ StageType /\ MarkType /\ RecordType /\ CountType

LEMMA TypesInit == Init => Types
<1> SUFFICES ASSUME Init PROVE Types
  OBVIOUS
<1> USE BoundsAssumption DEF Init, Answers, Kinds, Ways, Lives, Bodies, Tails, NoWork,
                             NoTerm, NoVerdict
<1>1. WorldType
  BY DEF WorldType
<1>2. WireType
  BY DEF WireType
<1>3. StageType
  BY DEF StageType
<1>4. MarkType
  BY DEF MarkType
<1>5. RecordType
  BY DEF RecordType
<1>6. CountType
  BY DEF CountType
<1> QED BY <1>1, <1>2, <1>3, <1>4, <1>5, <1>6 DEF Types

LEMMA TypesNext == Types /\ [Next]_vars => Types'
  BY WorldTypeNext, WireTypeNext, StageTypeNext, MarkTypeNext, RecordTypeNext,
     CountTypeNext DEF Types

\* Every variable keeps its type, in every behaviour of the four processes.
THEOREM Typing == Spec => []TypeOK
<1>1. Spec => []Types
  BY TypesInit, TypesNext, PTL DEF Spec
<1>2. Types => TypeOK
  BY DEF Types, TypeOK, WorldType, WireType, StageType, MarkType, RecordType, CountType
<1> QED BY <1>1, <1>2, PTL

-----------------------------------------------------------------------------
(* The inductive invariant.                                                *)

\* Who has a child, and who was never born.
Early == [O |-> {"start"}, C |-> {"none", "boot", "config", "spawn"},
          A |-> {"none", "boot", "config", "create"}]
Family ==
    /\ \A p \in Owners :
          /\ has[p] = "none" => body[Child[p]] = "none"
          /\ tail[p] = "no" /\ body[p] \in Early[p] => has[p] = "none"
    /\ \A p \in {"C", "A", "W"} :
          /\ body[p] = "none" => proc[p] = "none" /\ tail[p] = "no"
          /\ rcpt[p] # "none" => proc[p] = "gone"

\* The grant goes down one owner at a time, and only the last one is the tool's.
Dispatch ==
    /\ "RUN" \in chan["OC"] \/ Tried("C", "RUN") => Tried("O", "RUN")
    /\ "RUN" \in chan["CA"] \/ Tried("A", "RUN") => Tried("C", "RUN")
    /\ "RUN" \in chan["AW"] \/ body["W"] \in {"armed", "rejected", "target"} => Tried("A", "RUN")
    /\ Tried("A", "RUN") => has["A"] # "none"
    /\ body["A"] \in {"hello", "ready", "run", "wait"} => has["A"] # "none"
    /\ image = "target" => body["W"] = "target"
    /\ kid # "none" => image = "target"

\* What each record says is what it was made from, and stays so.
Records ==
    /\ "REJECTED" \in chan["WA"] \cup got["A"] => body["W"] = "rejected"
    /\ work # NoWork =>
          /\ tail["A"] \in {"group", "close"}
          /\ work.run = YesNo(Tried("A", "RUN"))
          /\ work.noChild = "yes" => work.run = "no"
          /\ work.rejected = "yes" => body["W"] = "rejected"
    /\ seal = "yes" => work # NoWork
    /\ term # NoTerm => tail["C"] = "close"
    /\ term.noTarget # "none" => work # NoWork /\ (work.run = "no" \/ work.rejected = "yes")
    /\ verdict # NoVerdict => tail["O"] = "done" /\ verdict.final # "none"
    /\ verdict # NoVerdict => verdict.dispatched = YesNo(verdict.tag = "none" /\ Tried("O", "RUN"))
    /\ verdict.tag # "none" => has["O"] = "none" \/ (term # NoTerm /\ term.noTarget # "none")

\* Once C has seen G empty it stays so: A can create nothing any more.
Emptied ==
    /\ body["A"] = "none" => grp = "start"
    /\ "HELLO" \in chan["AC"] => body["A"] \notin {"none", "boot"}
    /\ "CONFIG" \in chan["CA"] => body["A"] \notin {"none", "boot"}
    /\ InBody("A") /\ grp = "start" => body["A"] = "boot"
    /\ InBody("A") /\ grp = "moved" => body["A"] \in {"ready", "run", "wait"}
    /\ absent = "yes" =>
          /\ Over("W") /\ kid # "running" /\ tail["C"] # "no"
          /\ InBody("A") => body["A"] # "create"
          /\ InBody("A") /\ body["A"] \in {"boot", "config"} => "CONFIG" \notin chan["CA"]
    /\ seal = "yes" => absent = "yes" /\ proc["A"] = "gone"
    /\ tail["C"] \in {"create", "link", "sync"} \/ fence # "none" => seal = "yes"
    /\ term.producer = "yes" => seal = "yes"
    /\ verdict.final = "yes" =>
          has["O"] = "none" \/ (rcpt["C"] # "none" /\ term.producer = "yes")

IInv == Types /\ Family /\ Dispatch /\ Records /\ Emptied

-----------------------------------------------------------------------------
(* It holds at first, and every step keeps each of its parts.              *)

LEMMA IInvInit == Init => IInv
<1> SUFFICES ASSUME Init PROVE IInv
  OBVIOUS
<1>1. Types
  BY TypesInit
<1> USE DEF Init, Tried
<1>2. Family
  BY DEF Family
<1>3. Dispatch
  BY DEF Dispatch
<1>4. Records
  BY DEF Records, NoVerdict, NoTerm
<1>5. Emptied
  BY DEF Emptied, NoVerdict, NoTerm
<1> QED BY <1>1, <1>2, <1>3, <1>4, <1>5 DEF IInv

LEMMA FamilyNext ==
  /\ WorldType /\ StageType /\ MarkType /\ Family
  /\ [Next]_vars
  => Family'
<1> USE DEF WorldType, StageType, MarkType, Family, Early, Ends, Fall,
            KillGroup, InGroup, Unwinds, Attempt, Cause, GrantStage,
            NextStage, SpawnStage, MaySpawn, Born, Grants, Reap, Poisons,
            Next1, Closed, Eof, Writer, YesNo, WaitsIn, Pumps, FenceStep,
            FenceNext, Tried
<1> DEFINE Given == WorldType /\ StageType /\ MarkType /\ Family
<1>1. ASSUME Given, WHello PROVE Family'
  BY <1>1 DEF WHello
<1>2. ASSUME Given, WReady PROVE Family'
  BY <1>2 DEF WReady
<1>3. ASSUME Given, WArm PROVE Family'
  BY <1>3 DEF WArm
<1>4. ASSUME Given, WExec PROVE Family'
  BY <1>4 DEF WExec
<1>5. ASSUME Given, WReject PROVE Family'
  BY <1>5 DEF WReject
<1>6. ASSUME Given, WEnds(FALSE) PROVE Family'
  BY <1>6 DEF WEnds, HearsParent, ParentLost, Starved
<1>7. ASSUME Given, WEnds(TRUE) PROVE Family'
  BY <1>7 DEF WEnds, HearsParent, ParentLost, Starved
<1>8. ASSUME Given, ToolForks PROVE Family'
  BY <1>8 DEF ToolForks
<1>9. ASSUME Given, ToolEnds PROVE Family'
  BY <1>9 DEF ToolEnds
<1>10. ASSUME Given, KidEnds PROVE Family'
  BY <1>10 DEF KidEnds
<1>11. ASSUME Given, AHello PROVE Family'
  BY <1>11 DEF AHello
<1>12. ASSUME Given, APrepared PROVE Family'
  BY <1>12 DEF APrepared
<1>13. ASSUME Given, AMoves PROVE Family'
  BY <1>13 DEF AMoves
<1>14. ASSUME Given, AReady PROVE Family'
  BY <1>14 DEF AReady
<1>15. ASSUME Given, AReaps PROVE Family'
  BY <1>15 DEF AReaps
<1>16. ASSUME Given, AWaited PROVE Family'
  BY <1>16 DEF AWaited
<1>17. ASSUME Given, ASettleNoChild PROVE Family'
  BY <1>17 DEF ASettleNoChild
<1>18. ASSUME Given, ASettleUnmoved PROVE Family'
  BY <1>18 DEF ASettleUnmoved
<1>19. ASSUME Given, ASettleChild PROVE Family'
  BY <1>19 DEF ASettleChild
<1>20. ASSUME Given, AWaitsW PROVE Family'
  BY <1>20 DEF AWaitsW
<1>21. ASSUME Given, ADrained PROVE Family'
  BY <1>21 DEF ADrained
<1>22. ASSUME Given, AWorkDone PROVE Family'
  BY <1>22 DEF AWorkDone, AProducers, Receipt
<1>23. ASSUME Given, AGroupLost PROVE Family'
  BY <1>23 DEF AGroupLost
<1>24. ASSUME Given, AExits PROVE Family'
  BY <1>24 DEF AExits, ExitCode
<1>25. ASSUME Given, CHello PROVE Family'
  BY <1>25 DEF CHello
<1>26. ASSUME Given, CConfig PROVE Family'
  BY <1>26 DEF CConfig
<1>27. ASSUME Given, CAdmitsAnchor PROVE Family'
  BY <1>27 DEF CAdmitsAnchor
<1>28. ASSUME Given, CPrepared PROVE Family'
  BY <1>28 DEF CPrepared
<1>29. ASSUME Given, CReady PROVE Family'
  BY <1>29 DEF CReady
<1>30. ASSUME Given, CWorkDone PROVE Family'
  BY <1>30 DEF CWorkDone
<1>31. ASSUME Given, CSettle PROVE Family'
  BY <1>31 DEF CSettle
<1>32. ASSUME Given, CTerminates PROVE Family'
  BY <1>32 DEF CTerminates, GroupEmpty
<1>33. ASSUME Given, CProbes PROVE Family'
  BY <1>33 DEF CProbes, GroupEmpty
<1>34. ASSUME Given, CConfirms PROVE Family'
  BY <1>34 DEF CConfirms
<1>35. ASSUME Given, CTerminal PROVE Family'
  BY <1>35 DEF CTerminal
<1>36. ASSUME Given, CKillsAnchor PROVE Family'
  BY <1>36 DEF CKillsAnchor
<1>37. ASSUME Given, CReaps PROVE Family'
  BY <1>37 DEF CReaps
<1>38. ASSUME Given, CSeals PROVE Family'
  BY <1>38 DEF CSeals, CProducers, SourcesEnded
<1>39. ASSUME Given, CPublishes PROVE Family'
  BY <1>39 DEF CPublishes
<1>40. ASSUME Given, CPublishesLate PROVE Family'
  BY <1>40 DEF CPublishesLate
<1>41. ASSUME Given, CRelays PROVE Family'
  BY <1>41 DEF CRelays
<1>42. ASSUME Given, CReports PROVE Family'
  BY <1>42 DEF CReports, NoTarget
<1>43. ASSUME Given, CExits PROVE Family'
  BY <1>43 DEF CExits, ExitCode
<1>44. ASSUME Given, OConfig PROVE Family'
  BY <1>44 DEF OConfig
<1>45. ASSUME Given, OPrepared PROVE Family'
  BY <1>45 DEF OPrepared
<1>46. ASSUME Given, OWaited PROVE Family'
  BY <1>46 DEF OWaited
<1>47. ASSUME Given, OSettle PROVE Family'
  BY <1>47 DEF OSettle
<1>48. ASSUME Given, ODrained PROVE Family'
  BY <1>48 DEF ODrained
<1>49. ASSUME Given, OWaitsC PROVE Family'
  BY <1>49 DEF OWaitsC
<1>50. ASSUME Given, OPublishes PROVE Family'
  BY <1>50 DEF OPublishes, Complete, Finality, Tag
<1>51. ASSUME Given, NEW t \in Tags, AFrame(t) PROVE Family'
  BY <1>51 DEF AFrame, AAdmits
<1>52. ASSUME Given, NEW t \in Tags, AGroup(t) PROVE Family'
  BY <1>52 DEF AGroup
<1>53. ASSUME Given, NEW t \in Tags, CFrame(t) PROVE Family'
  BY <1>53 DEF CFrame, CAdmits
<1>54. ASSUME Given, NEW t \in Tags, OFrame(t) PROVE Family'
  BY <1>54 DEF OFrame, OAdmits, TerminalFits
<1>55. ASSUME Given, NEW p \in Owners, Spawn(p) PROVE Family'
  BY <1>55 DEF Spawn
<1>56. ASSUME Given, NEW p \in Owners, Grant(p) PROVE Family'
  <2>1. CASE p = "O"
    BY <1>56, <2>1 DEF Grant, NoVerdict
  <2>2. CASE p = "C"
    BY <1>56, <2>2 DEF Grant
  <2>3. CASE p = "A"
    BY <1>56, <2>3 DEF Grant
  <2> QED BY <2>1, <2>2, <2>3
<1>57. ASSUME Given, NEW p \in Owners, Unwind(p) PROVE Family'
  BY <1>57 DEF Unwind
<1>58. ASSUME Given, NEW p \in Owners, Stop(p) PROVE Family'
  BY <1>58 DEF Stop, HearsParent, Stopped
<1>59. ASSUME Given, NEW p \in Owners, DrainPoisoned(p) PROVE Family'
  BY <1>59 DEF DrainPoisoned
<1>60. ASSUME Given, NEW p \in Owners, SpawnLost(p) PROVE Family'
  BY <1>60 DEF SpawnLost
<1>61. ASSUME Given, NEW p \in Owners, GrantLost(p) PROVE Family'
  <2>1. CASE p = "O"
    BY <1>61, <2>1 DEF GrantLost, NoVerdict
  <2>2. CASE p = "C"
    BY <1>61, <2>2 DEF GrantLost
  <2>3. CASE p = "A"
    BY <1>61, <2>3 DEF GrantLost
  <2> QED BY <2>1, <2>2, <2>3
<1>62. ASSUME Given, NEW p \in Owners, BodyFault(p) PROVE Family'
  BY <1>62 DEF BodyFault
<1>63. ASSUME Given, NEW p \in Owners, CleanupFault(p) PROVE Family'
  BY <1>63 DEF CleanupFault
<1>64. ASSUME Given, NEW p \in Owners, Cutoff(p) PROVE Family'
  BY <1>64 DEF Cutoff
<1>65. ASSUME Given, NEW p \in Roles, Kill(p) PROVE Family'
  BY <1>65 DEF Kill
<1>66. ASSUME Given, Deadline PROVE Family'
  BY <1>66 DEF Deadline
<1>67. ASSUME Given, CPublishFails PROVE Family'
  BY <1>67 DEF CPublishFails
<1>68. ASSUME Given, Finished PROVE Family'
  BY <1>68 DEF Finished, vars
<1>69. ASSUME Given, UNCHANGED vars PROVE Family'
  BY <1>69 DEF vars
<1> HIDE DEF WorldType, StageType, MarkType, Family
<1> QED BY <1>1, <1>2, <1>3, <1>4, <1>5, <1>6, <1>7, <1>8, <1>9, <1>10, <1>11,
     <1>12, <1>13, <1>14, <1>15, <1>16, <1>17, <1>18, <1>19, <1>20, <1>21,
     <1>22, <1>23, <1>24, <1>25, <1>26, <1>27, <1>28, <1>29, <1>30, <1>31,
     <1>32, <1>33, <1>34, <1>35, <1>36, <1>37, <1>38, <1>39, <1>40, <1>41,
     <1>42, <1>43, <1>44, <1>45, <1>46, <1>47, <1>48, <1>49, <1>50, <1>51,
     <1>52, <1>53, <1>54, <1>55, <1>56, <1>57, <1>58, <1>59, <1>60, <1>61,
     <1>62, <1>63, <1>64, <1>65, <1>66, <1>67, <1>68, <1>69
  DEF Next, Worker, Tool, Anchor, Custodian, Outer, Shared, Trouble

LEMMA DispatchNext ==
  /\ WorldType /\ WireType /\ StageType /\ Family /\ Dispatch
  /\ [Next]_vars
  => Dispatch'
<1> USE DEF WorldType, WireType, StageType, Family, Early, Dispatch, Ends,
            Fall, KillGroup, InGroup, Unwinds, Attempt, Cause, GrantStage,
            NextStage, SpawnStage, MaySpawn, Born, Grants, Reap, Poisons,
            Next1, Closed, Eof, Writer, YesNo, WaitsIn, Pumps, FenceStep,
            FenceNext, Tried
<1> DEFINE Given == WorldType /\ WireType /\ StageType /\ Family /\ Dispatch
<1>1. ASSUME Given, WHello PROVE Dispatch'
  BY <1>1 DEF WHello
<1>2. ASSUME Given, WReady PROVE Dispatch'
  BY <1>2 DEF WReady
<1>3. ASSUME Given, WArm PROVE Dispatch'
  BY <1>3 DEF WArm
<1>4. ASSUME Given, WExec PROVE Dispatch'
  BY <1>4 DEF WExec
<1>5. ASSUME Given, WReject PROVE Dispatch'
  BY <1>5 DEF WReject
<1>6. ASSUME Given, WEnds(FALSE) PROVE Dispatch'
  BY <1>6 DEF WEnds, HearsParent, ParentLost, Starved
<1>7. ASSUME Given, WEnds(TRUE) PROVE Dispatch'
  BY <1>7 DEF WEnds, HearsParent, ParentLost, Starved
<1>8. ASSUME Given, ToolForks PROVE Dispatch'
  BY <1>8 DEF ToolForks
<1>9. ASSUME Given, ToolEnds PROVE Dispatch'
  BY <1>9 DEF ToolEnds
<1>10. ASSUME Given, KidEnds PROVE Dispatch'
  BY <1>10 DEF KidEnds
<1>11. ASSUME Given, AHello PROVE Dispatch'
  BY <1>11 DEF AHello
<1>12. ASSUME Given, APrepared PROVE Dispatch'
  BY <1>12 DEF APrepared
<1>13. ASSUME Given, AMoves PROVE Dispatch'
  BY <1>13 DEF AMoves
<1>14. ASSUME Given, AReady PROVE Dispatch'
  BY <1>14 DEF AReady
<1>15. ASSUME Given, AReaps PROVE Dispatch'
  BY <1>15 DEF AReaps
<1>16. ASSUME Given, AWaited PROVE Dispatch'
  BY <1>16 DEF AWaited
<1>17. ASSUME Given, ASettleNoChild PROVE Dispatch'
  BY <1>17 DEF ASettleNoChild
<1>18. ASSUME Given, ASettleUnmoved PROVE Dispatch'
  BY <1>18 DEF ASettleUnmoved
<1>19. ASSUME Given, ASettleChild PROVE Dispatch'
  BY <1>19 DEF ASettleChild
<1>20. ASSUME Given, AWaitsW PROVE Dispatch'
  BY <1>20 DEF AWaitsW
<1>21. ASSUME Given, ADrained PROVE Dispatch'
  BY <1>21 DEF ADrained
<1>22. ASSUME Given, AWorkDone PROVE Dispatch'
  BY <1>22 DEF AWorkDone, AProducers, Receipt
<1>23. ASSUME Given, AGroupLost PROVE Dispatch'
  BY <1>23 DEF AGroupLost
<1>24. ASSUME Given, AExits PROVE Dispatch'
  BY <1>24 DEF AExits, ExitCode
<1>25. ASSUME Given, CHello PROVE Dispatch'
  BY <1>25 DEF CHello
<1>26. ASSUME Given, CConfig PROVE Dispatch'
  BY <1>26 DEF CConfig
<1>27. ASSUME Given, CAdmitsAnchor PROVE Dispatch'
  BY <1>27 DEF CAdmitsAnchor
<1>28. ASSUME Given, CPrepared PROVE Dispatch'
  BY <1>28 DEF CPrepared
<1>29. ASSUME Given, CReady PROVE Dispatch'
  BY <1>29 DEF CReady
<1>30. ASSUME Given, CWorkDone PROVE Dispatch'
  BY <1>30 DEF CWorkDone
<1>31. ASSUME Given, CSettle PROVE Dispatch'
  BY <1>31 DEF CSettle
<1>32. ASSUME Given, CTerminates PROVE Dispatch'
  BY <1>32 DEF CTerminates, GroupEmpty
<1>33. ASSUME Given, CProbes PROVE Dispatch'
  BY <1>33 DEF CProbes, GroupEmpty
<1>34. ASSUME Given, CConfirms PROVE Dispatch'
  BY <1>34 DEF CConfirms
<1>35. ASSUME Given, CTerminal PROVE Dispatch'
  BY <1>35 DEF CTerminal
<1>36. ASSUME Given, CKillsAnchor PROVE Dispatch'
  BY <1>36 DEF CKillsAnchor
<1>37. ASSUME Given, CReaps PROVE Dispatch'
  BY <1>37 DEF CReaps
<1>38. ASSUME Given, CSeals PROVE Dispatch'
  BY <1>38 DEF CSeals, CProducers, SourcesEnded
<1>39. ASSUME Given, CPublishes PROVE Dispatch'
  BY <1>39 DEF CPublishes
<1>40. ASSUME Given, CPublishesLate PROVE Dispatch'
  BY <1>40 DEF CPublishesLate
<1>41. ASSUME Given, CRelays PROVE Dispatch'
  BY <1>41 DEF CRelays
<1>42. ASSUME Given, CReports PROVE Dispatch'
  BY <1>42 DEF CReports, NoTarget
<1>43. ASSUME Given, CExits PROVE Dispatch'
  BY <1>43 DEF CExits, ExitCode
<1>44. ASSUME Given, OConfig PROVE Dispatch'
  BY <1>44 DEF OConfig
<1>45. ASSUME Given, OPrepared PROVE Dispatch'
  BY <1>45 DEF OPrepared
<1>46. ASSUME Given, OWaited PROVE Dispatch'
  BY <1>46 DEF OWaited
<1>47. ASSUME Given, OSettle PROVE Dispatch'
  BY <1>47 DEF OSettle
<1>48. ASSUME Given, ODrained PROVE Dispatch'
  BY <1>48 DEF ODrained
<1>49. ASSUME Given, OWaitsC PROVE Dispatch'
  BY <1>49 DEF OWaitsC
<1>50. ASSUME Given, OPublishes PROVE Dispatch'
  BY <1>50 DEF OPublishes, Complete, Finality, Tag
<1>51. ASSUME Given, NEW t \in Tags, AFrame(t) PROVE Dispatch'
  BY <1>51 DEF AFrame, AAdmits
<1>52. ASSUME Given, NEW t \in Tags, AGroup(t) PROVE Dispatch'
  BY <1>52 DEF AGroup
<1>53. ASSUME Given, NEW t \in Tags, CFrame(t) PROVE Dispatch'
  BY <1>53 DEF CFrame, CAdmits
<1>54. ASSUME Given, NEW t \in Tags, OFrame(t) PROVE Dispatch'
  BY <1>54 DEF OFrame, OAdmits, TerminalFits
<1>55. ASSUME Given, NEW p \in Owners, Spawn(p) PROVE Dispatch'
  BY <1>55 DEF Spawn
<1>56. ASSUME Given, NEW p \in Owners, Grant(p) PROVE Dispatch'
  <2>1. CASE p = "O"
    BY <1>56, <2>1 DEF Grant, NoVerdict
  <2>2. CASE p = "C"
    BY <1>56, <2>2 DEF Grant
  <2>3. CASE p = "A"
    BY <1>56, <2>3 DEF Grant
  <2> QED BY <2>1, <2>2, <2>3
<1>57. ASSUME Given, NEW p \in Owners, Unwind(p) PROVE Dispatch'
  BY <1>57 DEF Unwind
<1>58. ASSUME Given, NEW p \in Owners, Stop(p) PROVE Dispatch'
  BY <1>58 DEF Stop, HearsParent, Stopped
<1>59. ASSUME Given, NEW p \in Owners, DrainPoisoned(p) PROVE Dispatch'
  BY <1>59 DEF DrainPoisoned
<1>60. ASSUME Given, NEW p \in Owners, SpawnLost(p) PROVE Dispatch'
  BY <1>60 DEF SpawnLost
<1>61. ASSUME Given, NEW p \in Owners, GrantLost(p) PROVE Dispatch'
  <2>1. CASE p = "O"
    BY <1>61, <2>1 DEF GrantLost, NoVerdict
  <2>2. CASE p = "C"
    BY <1>61, <2>2 DEF GrantLost
  <2>3. CASE p = "A"
    BY <1>61, <2>3 DEF GrantLost
  <2> QED BY <2>1, <2>2, <2>3
<1>62. ASSUME Given, NEW p \in Owners, BodyFault(p) PROVE Dispatch'
  BY <1>62 DEF BodyFault
<1>63. ASSUME Given, NEW p \in Owners, CleanupFault(p) PROVE Dispatch'
  BY <1>63 DEF CleanupFault
<1>64. ASSUME Given, NEW p \in Owners, Cutoff(p) PROVE Dispatch'
  BY <1>64 DEF Cutoff
<1>65. ASSUME Given, NEW p \in Roles, Kill(p) PROVE Dispatch'
  BY <1>65 DEF Kill
<1>66. ASSUME Given, Deadline PROVE Dispatch'
  BY <1>66 DEF Deadline
<1>67. ASSUME Given, CPublishFails PROVE Dispatch'
  BY <1>67 DEF CPublishFails
<1>68. ASSUME Given, Finished PROVE Dispatch'
  BY <1>68 DEF Finished, vars
<1>69. ASSUME Given, UNCHANGED vars PROVE Dispatch'
  BY <1>69 DEF vars
<1> HIDE DEF WorldType, WireType, StageType, Family, Dispatch
<1> QED BY <1>1, <1>2, <1>3, <1>4, <1>5, <1>6, <1>7, <1>8, <1>9, <1>10, <1>11,
     <1>12, <1>13, <1>14, <1>15, <1>16, <1>17, <1>18, <1>19, <1>20, <1>21,
     <1>22, <1>23, <1>24, <1>25, <1>26, <1>27, <1>28, <1>29, <1>30, <1>31,
     <1>32, <1>33, <1>34, <1>35, <1>36, <1>37, <1>38, <1>39, <1>40, <1>41,
     <1>42, <1>43, <1>44, <1>45, <1>46, <1>47, <1>48, <1>49, <1>50, <1>51,
     <1>52, <1>53, <1>54, <1>55, <1>56, <1>57, <1>58, <1>59, <1>60, <1>61,
     <1>62, <1>63, <1>64, <1>65, <1>66, <1>67, <1>68, <1>69
  DEF Next, Worker, Tool, Anchor, Custodian, Outer, Shared, Trouble

LEMMA RecordsNext ==
  /\ WorldType /\ WireType /\ StageType /\ RecordType /\ Family /\ Dispatch
  /\ Records
  /\ [Next]_vars
  => Records'
<1> USE DEF WorldType, WireType, StageType, RecordType, Family, Early,
            Dispatch, Records, Ends, Fall, KillGroup, InGroup, Unwinds,
            Attempt, Cause, GrantStage, NextStage, SpawnStage, MaySpawn, Born,
            Grants, Reap, Poisons, Next1, Closed, Eof, Writer, YesNo, WaitsIn,
            Pumps, FenceStep, FenceNext, Tried
<1> DEFINE Given == WorldType /\ WireType /\ StageType /\ RecordType /\ Family /\ Dispatch
                    /\ Records
<1>1. ASSUME Given, WHello PROVE Records'
  BY <1>1 DEF WHello
<1>2. ASSUME Given, WReady PROVE Records'
  BY <1>2 DEF WReady
<1>3. ASSUME Given, WArm PROVE Records'
  BY <1>3 DEF WArm
<1>4. ASSUME Given, WExec PROVE Records'
  BY <1>4 DEF WExec
<1>5. ASSUME Given, WReject PROVE Records'
  BY <1>5 DEF WReject
<1>6. ASSUME Given, WEnds(FALSE) PROVE Records'
  BY <1>6 DEF WEnds, HearsParent, ParentLost, Starved
<1>7. ASSUME Given, WEnds(TRUE) PROVE Records'
  BY <1>7 DEF WEnds, HearsParent, ParentLost, Starved
<1>8. ASSUME Given, ToolForks PROVE Records'
  BY <1>8 DEF ToolForks
<1>9. ASSUME Given, ToolEnds PROVE Records'
  BY <1>9 DEF ToolEnds
<1>10. ASSUME Given, KidEnds PROVE Records'
  BY <1>10 DEF KidEnds
<1>11. ASSUME Given, AHello PROVE Records'
  BY <1>11 DEF AHello
<1>12. ASSUME Given, APrepared PROVE Records'
  BY <1>12 DEF APrepared
<1>13. ASSUME Given, AMoves PROVE Records'
  BY <1>13 DEF AMoves
<1>14. ASSUME Given, AReady PROVE Records'
  BY <1>14 DEF AReady
<1>15. ASSUME Given, AReaps PROVE Records'
  BY <1>15 DEF AReaps
<1>16. ASSUME Given, AWaited PROVE Records'
  BY <1>16 DEF AWaited
<1>17. ASSUME Given, ASettleNoChild PROVE Records'
  BY <1>17 DEF ASettleNoChild
<1>18. ASSUME Given, ASettleUnmoved PROVE Records'
  BY <1>18 DEF ASettleUnmoved
<1>19. ASSUME Given, ASettleChild PROVE Records'
  BY <1>19 DEF ASettleChild
<1>20. ASSUME Given, AWaitsW PROVE Records'
  BY <1>20 DEF AWaitsW
<1>21. ASSUME Given, ADrained PROVE Records'
  BY <1>21 DEF ADrained
<1>22. ASSUME Given, AWorkDone PROVE Records'
  BY <1>22 DEF AWorkDone, AProducers, Receipt
<1>23. ASSUME Given, AGroupLost PROVE Records'
  BY <1>23 DEF AGroupLost
<1>24. ASSUME Given, AExits PROVE Records'
  BY <1>24 DEF AExits, ExitCode
<1>25. ASSUME Given, CHello PROVE Records'
  BY <1>25 DEF CHello
<1>26. ASSUME Given, CConfig PROVE Records'
  BY <1>26 DEF CConfig
<1>27. ASSUME Given, CAdmitsAnchor PROVE Records'
  BY <1>27 DEF CAdmitsAnchor
<1>28. ASSUME Given, CPrepared PROVE Records'
  BY <1>28 DEF CPrepared
<1>29. ASSUME Given, CReady PROVE Records'
  BY <1>29 DEF CReady
<1>30. ASSUME Given, CWorkDone PROVE Records'
  BY <1>30 DEF CWorkDone
<1>31. ASSUME Given, CSettle PROVE Records'
  BY <1>31 DEF CSettle
<1>32. ASSUME Given, CTerminates PROVE Records'
  BY <1>32 DEF CTerminates, GroupEmpty
<1>33. ASSUME Given, CProbes PROVE Records'
  BY <1>33 DEF CProbes, GroupEmpty
<1>34. ASSUME Given, CConfirms PROVE Records'
  BY <1>34 DEF CConfirms
<1>35. ASSUME Given, CTerminal PROVE Records'
  BY <1>35 DEF CTerminal
<1>36. ASSUME Given, CKillsAnchor PROVE Records'
  BY <1>36 DEF CKillsAnchor
<1>37. ASSUME Given, CReaps PROVE Records'
  BY <1>37 DEF CReaps
<1>38. ASSUME Given, CSeals PROVE Records'
  <2>1. CASE CProducers /\ seal' = "yes"
    <3>1. work # NoWork
      BY <2>1 DEF CProducers, NoWork
    <3> QED BY <1>38, <2>1, <3>1 DEF CSeals
  <2>2. CASE UNCHANGED seal
    BY <1>38, <2>2 DEF CSeals
  <2> QED BY <1>38, <2>1, <2>2 DEF CSeals
<1>39. ASSUME Given, CPublishes PROVE Records'
  BY <1>39 DEF CPublishes
<1>40. ASSUME Given, CPublishesLate PROVE Records'
  BY <1>40 DEF CPublishesLate
<1>41. ASSUME Given, CRelays PROVE Records'
  BY <1>41 DEF CRelays
<1>42. ASSUME Given, CReports PROVE Records'
  <2>1. /\ tail'["C"] = "close"
        /\ UNCHANGED <<chan["WA"], chan["AW"], body, got>>
        /\ UNCHANGED <<work, seal, verdict, has, tried>>
    BY <1>42 DEF CReports
  <2>2. tail' = [tail EXCEPT !["C"] = "close"]
    BY <1>42 DEF CReports
  <2>3. term'.noTarget = NoTarget
    BY <1>42 DEF CReports
  <2>4. NoTarget # "none" => work # NoWork /\ (work.run = "no" \/ work.rejected = "yes")
    <3>1. CASE seal = "no"
      BY <3>1 DEF NoTarget
    <3>2. CASE seal = "yes" /\ work.noChild = "yes"
      BY <1>42, <3>2 DEF NoTarget
    <3>3. CASE seal = "yes" /\ work.noChild # "yes" /\ work.run = "no"
      BY <1>42, <3>3 DEF NoTarget
    <3>4. CASE seal = "yes" /\ work.noChild # "yes" /\ work.run # "no"
      BY <1>42, <3>4 DEF NoTarget
    <3> QED BY <1>42, <3>1, <3>2, <3>3, <3>4
  <2>5. verdict.tag # "none" => has["O"] = "none"
    BY <1>42 DEF CReports, NoTerm
  <2> QED BY <1>42, <2>1, <2>2, <2>3, <2>4, <2>5
<1>43. ASSUME Given, CExits PROVE Records'
  BY <1>43 DEF CExits, ExitCode
<1>44. ASSUME Given, OConfig PROVE Records'
  BY <1>44 DEF OConfig
<1>45. ASSUME Given, OPrepared PROVE Records'
  BY <1>45 DEF OPrepared
<1>46. ASSUME Given, OWaited PROVE Records'
  BY <1>46 DEF OWaited
<1>47. ASSUME Given, OSettle PROVE Records'
  BY <1>47 DEF OSettle
<1>48. ASSUME Given, ODrained PROVE Records'
  BY <1>48 DEF ODrained
<1>49. ASSUME Given, OWaitsC PROVE Records'
  BY <1>49 DEF OWaitsC
<1>50. ASSUME Given, OPublishes PROVE Records'
  <2>1. /\ UNCHANGED <<chan, body, got, work, seal, term, has, tried>>
        /\ tail' = [tail EXCEPT !["O"] = "done"]
    BY <1>50 DEF OPublishes
  <2>2. /\ verdict'.final # "none" /\ verdict'.tag = Tag
        /\ verdict'.dispatched = YesNo(Tag = "none" /\ Tried("O", "RUN"))
    BY <1>50 DEF OPublishes, YesNo
  <2>3. Tag # "none" => has["O"] = "none" \/ (term # NoTerm /\ term.noTarget # "none")
    BY DEF Tag, Finality, NoTerm
  <2> QED BY <1>50, <2>1, <2>2, <2>3
<1>51. ASSUME Given, NEW t \in Tags, AFrame(t) PROVE Records'
  BY <1>51 DEF AFrame, AAdmits
<1>52. ASSUME Given, NEW t \in Tags, AGroup(t) PROVE Records'
  BY <1>52 DEF AGroup
<1>53. ASSUME Given, NEW t \in Tags, CFrame(t) PROVE Records'
  BY <1>53 DEF CFrame, CAdmits
<1>54. ASSUME Given, NEW t \in Tags, OFrame(t) PROVE Records'
  BY <1>54 DEF OFrame, OAdmits, TerminalFits
<1>55. ASSUME Given, NEW p \in Owners, Spawn(p) PROVE Records'
  <2>1. CASE p = "O"
    BY <1>55, <2>1 DEF Spawn, NoVerdict
  <2>2. CASE p = "C"
    BY <1>55, <2>2 DEF Spawn
  <2>3. CASE p = "A"
    BY <1>55, <2>3 DEF Spawn
  <2> QED BY <2>1, <2>2, <2>3
<1>56. ASSUME Given, NEW p \in Owners, Grant(p) PROVE Records'
  <2>1. CASE p = "O"
    BY <1>56, <2>1 DEF Grant, NoVerdict
  <2>2. CASE p = "C"
    BY <1>56, <2>2 DEF Grant
  <2>3. CASE p = "A"
    BY <1>56, <2>3 DEF Grant
  <2> QED BY <2>1, <2>2, <2>3
<1>57. ASSUME Given, NEW p \in Owners, Unwind(p) PROVE Records'
  BY <1>57 DEF Unwind
<1>58. ASSUME Given, NEW p \in Owners, Stop(p) PROVE Records'
  BY <1>58 DEF Stop, HearsParent, Stopped
<1>59. ASSUME Given, NEW p \in Owners, DrainPoisoned(p) PROVE Records'
  BY <1>59 DEF DrainPoisoned
<1>60. ASSUME Given, NEW p \in Owners, SpawnLost(p) PROVE Records'
  <2>1. CASE p = "O"
    BY <1>60, <2>1 DEF SpawnLost, NoVerdict
  <2>2. CASE p = "C"
    BY <1>60, <2>2 DEF SpawnLost
  <2>3. CASE p = "A"
    BY <1>60, <2>3 DEF SpawnLost
  <2> QED BY <2>1, <2>2, <2>3
<1>61. ASSUME Given, NEW p \in Owners, GrantLost(p) PROVE Records'
  <2>1. CASE p = "O"
    BY <1>61, <2>1 DEF GrantLost, NoVerdict
  <2>2. CASE p = "C"
    BY <1>61, <2>2 DEF GrantLost
  <2>3. CASE p = "A"
    BY <1>61, <2>3 DEF GrantLost
  <2> QED BY <2>1, <2>2, <2>3
<1>62. ASSUME Given, NEW p \in Owners, BodyFault(p) PROVE Records'
  BY <1>62 DEF BodyFault
<1>63. ASSUME Given, NEW p \in Owners, CleanupFault(p) PROVE Records'
  BY <1>63 DEF CleanupFault
<1>64. ASSUME Given, NEW p \in Owners, Cutoff(p) PROVE Records'
  BY <1>64 DEF Cutoff
<1>65. ASSUME Given, NEW p \in Roles, Kill(p) PROVE Records'
  BY <1>65 DEF Kill
<1>66. ASSUME Given, Deadline PROVE Records'
  BY <1>66 DEF Deadline
<1>67. ASSUME Given, CPublishFails PROVE Records'
  BY <1>67 DEF CPublishFails
<1>68. ASSUME Given, Finished PROVE Records'
  BY <1>68 DEF Finished, vars
<1>69. ASSUME Given, UNCHANGED vars PROVE Records'
  BY <1>69 DEF vars
<1> HIDE DEF WorldType, WireType, StageType, RecordType, Family, Dispatch, Records
<1> QED BY <1>1, <1>2, <1>3, <1>4, <1>5, <1>6, <1>7, <1>8, <1>9, <1>10, <1>11,
     <1>12, <1>13, <1>14, <1>15, <1>16, <1>17, <1>18, <1>19, <1>20, <1>21,
     <1>22, <1>23, <1>24, <1>25, <1>26, <1>27, <1>28, <1>29, <1>30, <1>31,
     <1>32, <1>33, <1>34, <1>35, <1>36, <1>37, <1>38, <1>39, <1>40, <1>41,
     <1>42, <1>43, <1>44, <1>45, <1>46, <1>47, <1>48, <1>49, <1>50, <1>51,
     <1>52, <1>53, <1>54, <1>55, <1>56, <1>57, <1>58, <1>59, <1>60, <1>61,
     <1>62, <1>63, <1>64, <1>65, <1>66, <1>67, <1>68, <1>69
  DEF Next, Worker, Tool, Anchor, Custodian, Outer, Shared, Trouble

LEMMA EmptiedNext ==
  /\ WorldType /\ WireType /\ StageType /\ MarkType /\ RecordType /\ Family
  /\ Records /\ Emptied
  /\ [Next]_vars
  => Emptied'
<1> USE DEF WorldType, WireType, StageType, MarkType, RecordType, Family,
            Early, Records, Emptied, Over, Ends, Fall, KillGroup, InGroup,
            Unwinds, Attempt, Cause, GrantStage, NextStage, SpawnStage,
            MaySpawn, Born, Grants, Reap, Poisons, Next1, Closed, Eof, Writer,
            YesNo, WaitsIn, Pumps, FenceStep, FenceNext, Tried
<1> DEFINE Given == WorldType /\ WireType /\ StageType /\ MarkType /\ RecordType /\ Family
                    /\ Records /\ Emptied
<1>1. ASSUME Given, WHello PROVE Emptied'
  BY <1>1 DEF WHello
<1>2. ASSUME Given, WReady PROVE Emptied'
  BY <1>2 DEF WReady
<1>3. ASSUME Given, WArm PROVE Emptied'
  BY <1>3 DEF WArm
<1>4. ASSUME Given, WExec PROVE Emptied'
  BY <1>4 DEF WExec
<1>5. ASSUME Given, WReject PROVE Emptied'
  BY <1>5 DEF WReject
<1>6. ASSUME Given, WEnds(FALSE) PROVE Emptied'
  BY <1>6 DEF WEnds, HearsParent, ParentLost, Starved
<1>7. ASSUME Given, WEnds(TRUE) PROVE Emptied'
  BY <1>7 DEF WEnds, HearsParent, ParentLost, Starved
<1>8. ASSUME Given, ToolForks PROVE Emptied'
  BY <1>8 DEF ToolForks
<1>9. ASSUME Given, ToolEnds PROVE Emptied'
  BY <1>9 DEF ToolEnds
<1>10. ASSUME Given, KidEnds PROVE Emptied'
  BY <1>10 DEF KidEnds
<1>11. ASSUME Given, AHello PROVE Emptied'
  BY <1>11 DEF AHello
<1>12. ASSUME Given, APrepared PROVE Emptied'
  BY <1>12 DEF APrepared
<1>13. ASSUME Given, AMoves PROVE Emptied'
  BY <1>13 DEF AMoves
<1>14. ASSUME Given, AReady PROVE Emptied'
  BY <1>14 DEF AReady
<1>15. ASSUME Given, AReaps PROVE Emptied'
  BY <1>15 DEF AReaps
<1>16. ASSUME Given, AWaited PROVE Emptied'
  BY <1>16 DEF AWaited
<1>17. ASSUME Given, ASettleNoChild PROVE Emptied'
  BY <1>17 DEF ASettleNoChild
<1>18. ASSUME Given, ASettleUnmoved PROVE Emptied'
  BY <1>18 DEF ASettleUnmoved
<1>19. ASSUME Given, ASettleChild PROVE Emptied'
  BY <1>19 DEF ASettleChild
<1>20. ASSUME Given, AWaitsW PROVE Emptied'
  BY <1>20 DEF AWaitsW
<1>21. ASSUME Given, ADrained PROVE Emptied'
  BY <1>21 DEF ADrained
<1>22. ASSUME Given, AWorkDone PROVE Emptied'
  BY <1>22 DEF AWorkDone, AProducers, Receipt
<1>23. ASSUME Given, AGroupLost PROVE Emptied'
  BY <1>23 DEF AGroupLost
<1>24. ASSUME Given, AExits PROVE Emptied'
  BY <1>24 DEF AExits, ExitCode
<1>25. ASSUME Given, CHello PROVE Emptied'
  BY <1>25 DEF CHello
<1>26. ASSUME Given, CConfig PROVE Emptied'
  BY <1>26 DEF CConfig
<1>27. ASSUME Given, CAdmitsAnchor PROVE Emptied'
  BY <1>27 DEF CAdmitsAnchor
<1>28. ASSUME Given, CPrepared PROVE Emptied'
  BY <1>28 DEF CPrepared
<1>29. ASSUME Given, CReady PROVE Emptied'
  BY <1>29 DEF CReady
<1>30. ASSUME Given, CWorkDone PROVE Emptied'
  BY <1>30 DEF CWorkDone
<1>31. ASSUME Given, CSettle PROVE Emptied'
  BY <1>31 DEF CSettle
<1>32. ASSUME Given, CTerminates PROVE Emptied'
  BY <1>32 DEF CTerminates, GroupEmpty
<1>33. ASSUME Given, CProbes PROVE Emptied'
  BY <1>33 DEF CProbes, GroupEmpty
<1>34. ASSUME Given, CConfirms PROVE Emptied'
  BY <1>34 DEF CConfirms
<1>35. ASSUME Given, CTerminal PROVE Emptied'
  BY <1>35 DEF CTerminal
<1>36. ASSUME Given, CKillsAnchor PROVE Emptied'
  BY <1>36 DEF CKillsAnchor
<1>37. ASSUME Given, CReaps PROVE Emptied'
  BY <1>37 DEF CReaps
<1>38. ASSUME Given, CSeals PROVE Emptied'
  BY <1>38 DEF CSeals, CProducers, SourcesEnded
<1>39. ASSUME Given, CPublishes PROVE Emptied'
  BY <1>39 DEF CPublishes
<1>40. ASSUME Given, CPublishesLate PROVE Emptied'
  BY <1>40 DEF CPublishesLate
<1>41. ASSUME Given, CRelays PROVE Emptied'
  BY <1>41 DEF CRelays
<1>42. ASSUME Given, CReports PROVE Emptied'
  BY <1>42 DEF CReports, NoTarget
<1>43. ASSUME Given, CExits PROVE Emptied'
  BY <1>43 DEF CExits, ExitCode
<1>44. ASSUME Given, OConfig PROVE Emptied'
  BY <1>44 DEF OConfig
<1>45. ASSUME Given, OPrepared PROVE Emptied'
  BY <1>45 DEF OPrepared
<1>46. ASSUME Given, OWaited PROVE Emptied'
  BY <1>46 DEF OWaited
<1>47. ASSUME Given, OSettle PROVE Emptied'
  BY <1>47 DEF OSettle
<1>48. ASSUME Given, ODrained PROVE Emptied'
  BY <1>48 DEF ODrained
<1>49. ASSUME Given, OWaitsC PROVE Emptied'
  BY <1>49 DEF OWaitsC
<1>50. ASSUME Given, OPublishes PROVE Emptied'
  BY <1>50 DEF OPublishes, Complete, Finality, Tag
<1>51. ASSUME Given, NEW t \in Tags, AFrame(t) PROVE Emptied'
  BY <1>51 DEF AFrame, AAdmits
<1>52. ASSUME Given, NEW t \in Tags, AGroup(t) PROVE Emptied'
  BY <1>52 DEF AGroup
<1>53. ASSUME Given, NEW t \in Tags, CFrame(t) PROVE Emptied'
  BY <1>53 DEF CFrame, CAdmits
<1>54. ASSUME Given, NEW t \in Tags, OFrame(t) PROVE Emptied'
  BY <1>54 DEF OFrame, OAdmits, TerminalFits
<1>55. ASSUME Given, NEW p \in Owners, Spawn(p) PROVE Emptied'
  <2>1. CASE p = "O"
    BY <1>55, <2>1 DEF Spawn, NoVerdict
  <2>2. CASE p = "C"
    BY <1>55, <2>2 DEF Spawn
  <2>3. CASE p = "A"
    BY <1>55, <2>3 DEF Spawn
  <2> QED BY <2>1, <2>2, <2>3
<1>56. ASSUME Given, NEW p \in Owners, Grant(p) PROVE Emptied'
  <2>1. CASE p = "O"
    BY <1>56, <2>1 DEF Grant, NoVerdict
  <2>2. CASE p = "C"
    BY <1>56, <2>2 DEF Grant
  <2>3. CASE p = "A"
    BY <1>56, <2>3 DEF Grant
  <2> QED BY <2>1, <2>2, <2>3
<1>57. ASSUME Given, NEW p \in Owners, Unwind(p) PROVE Emptied'
  BY <1>57 DEF Unwind
<1>58. ASSUME Given, NEW p \in Owners, Stop(p) PROVE Emptied'
  BY <1>58 DEF Stop, HearsParent, Stopped
<1>59. ASSUME Given, NEW p \in Owners, DrainPoisoned(p) PROVE Emptied'
  BY <1>59 DEF DrainPoisoned
<1>60. ASSUME Given, NEW p \in Owners, SpawnLost(p) PROVE Emptied'
  <2>1. CASE p = "O"
    BY <1>60, <2>1 DEF SpawnLost, NoVerdict
  <2>2. CASE p = "C"
    BY <1>60, <2>2 DEF SpawnLost
  <2>3. CASE p = "A"
    BY <1>60, <2>3 DEF SpawnLost
  <2> QED BY <2>1, <2>2, <2>3
<1>61. ASSUME Given, NEW p \in Owners, GrantLost(p) PROVE Emptied'
  <2>1. CASE p = "O"
    BY <1>61, <2>1 DEF GrantLost, NoVerdict
  <2>2. CASE p = "C"
    BY <1>61, <2>2 DEF GrantLost
  <2>3. CASE p = "A"
    BY <1>61, <2>3 DEF GrantLost
  <2> QED BY <2>1, <2>2, <2>3
<1>62. ASSUME Given, NEW p \in Owners, BodyFault(p) PROVE Emptied'
  BY <1>62 DEF BodyFault
<1>63. ASSUME Given, NEW p \in Owners, CleanupFault(p) PROVE Emptied'
  BY <1>63 DEF CleanupFault
<1>64. ASSUME Given, NEW p \in Owners, Cutoff(p) PROVE Emptied'
  BY <1>64 DEF Cutoff
<1>65. ASSUME Given, NEW p \in Roles, Kill(p) PROVE Emptied'
  BY <1>65 DEF Kill
<1>66. ASSUME Given, Deadline PROVE Emptied'
  BY <1>66 DEF Deadline
<1>67. ASSUME Given, CPublishFails PROVE Emptied'
  BY <1>67 DEF CPublishFails
<1>68. ASSUME Given, Finished PROVE Emptied'
  BY <1>68 DEF Finished, vars
<1>69. ASSUME Given, UNCHANGED vars PROVE Emptied'
  BY <1>69 DEF vars
<1> HIDE DEF WorldType, WireType, StageType, MarkType, RecordType, Family, Records, Emptied
<1> QED BY <1>1, <1>2, <1>3, <1>4, <1>5, <1>6, <1>7, <1>8, <1>9, <1>10, <1>11,
     <1>12, <1>13, <1>14, <1>15, <1>16, <1>17, <1>18, <1>19, <1>20, <1>21,
     <1>22, <1>23, <1>24, <1>25, <1>26, <1>27, <1>28, <1>29, <1>30, <1>31,
     <1>32, <1>33, <1>34, <1>35, <1>36, <1>37, <1>38, <1>39, <1>40, <1>41,
     <1>42, <1>43, <1>44, <1>45, <1>46, <1>47, <1>48, <1>49, <1>50, <1>51,
     <1>52, <1>53, <1>54, <1>55, <1>56, <1>57, <1>58, <1>59, <1>60, <1>61,
     <1>62, <1>63, <1>64, <1>65, <1>66, <1>67, <1>68, <1>69
  DEF Next, Worker, Tool, Anchor, Custodian, Outer, Shared, Trouble

LEMMA Invariance == Spec => []IInv
<1>1. IInv /\ [Next]_vars => IInv'
  BY TypesNext, FamilyNext, DispatchNext, RecordsNext, EmptiedNext DEF IInv, Types
<1> QED BY <1>1, IInvInit, PTL DEF Spec

-----------------------------------------------------------------------------
(* What the records say of the processes.                                  *)

\* Nobody was born below an owner without a child.
LEMMA Unborn ==
  ASSUME IInv, has["O"] = "none"
  PROVE  /\ body["W"] = "none"
         /\ \A p \in {"C", "A", "W"} : proc[p] = "none"
<1> USE DEF IInv, Family, Early
<1>1. body["C"] = "none" /\ tail["C"] = "no" /\ proc["C"] = "none"
  OBVIOUS
<1>2. has["C"] = "none"
  BY <1>1
<1>3. body["A"] = "none" /\ tail["A"] = "no" /\ proc["A"] = "none"
  BY <1>2
<1>4. has["A"] = "none"
  BY <1>3
<1> QED BY <1>1, <1>3, <1>4

\* A tool that ran was dispatched by all three owners, and no settlement
\* says otherwise.
LEMMA ToolWasDispatched ==
  ASSUME IInv, image = "target"
  PROVE  /\ Tried("A", "RUN") /\ Tried("C", "RUN") /\ Tried("O", "RUN")
         /\ has["O"] # "none"
         /\ term.noTarget = "none"
<1>1. body["W"] = "target"
  BY DEF IInv, Dispatch
<1>2. Tried("A", "RUN") /\ Tried("C", "RUN") /\ Tried("O", "RUN")
  BY <1>1 DEF IInv, Dispatch
<1>3. has["O"] # "none"
  BY <1>1, Unborn
<1>4. term.noTarget = "none"
  BY <1>1, <1>2 DEF IInv, Records, YesNo
<1> QED BY <1>2, <1>3, <1>4

LEMMA NoTargetFollows == IInv => NoTargetIsTrue
  BY ToolWasDispatched DEF IInv, Records, NoTargetIsTrue, YesNo

\* A no-target proof is true of the tool, then and later, and a tool that
\* ran is reported as dispatched.
THEOREM NoTargetHolds == Spec => []NoTargetIsTrue
<1> QED BY NoTargetFollows, Invariance, PTL

\* The published fence speaks of producers that are over, and calls a
\* command never dispatched only when its tool never ran.
THEOREM FenceHolds == Spec => []FenceIsTrue
<1>1. IInv => FenceIsTrue
  <2> SUFFICES ASSUME IInv, fence \in {"linked", "synced"} PROVE FenceIsTrue
    BY DEF FenceIsTrue
  <2>1. Over("A") /\ Over("W") /\ kid # "running"
    BY DEF IInv, Emptied, Over
  <2>2. image # "helper" => FenceSays # "never-dispatched"
    BY ToolWasDispatched DEF IInv, Types, WorldType, FenceSays
  <2> QED BY <2>1, <2>2 DEF FenceIsTrue
<1> QED BY <1>1, Invariance, PTL

LEMMA FinalIsOver ==
  ASSUME IInv, verdict.final = "yes"
  PROVE  Over("C") /\ Over("A") /\ Over("W") /\ kid # "running"
<1>1. CASE has["O"] = "none"
  <2>1. body["W"] = "none" /\ \A p \in {"C", "A", "W"} : proc[p] = "none"
    BY <1>1, Unborn
  <2> QED BY <2>1 DEF IInv, Dispatch, Over
<1>2. CASE has["O"] # "none"
  <2>1. rcpt["C"] # "none" /\ seal = "yes"
    BY <1>2 DEF IInv, Emptied
  <2> QED BY <2>1 DEF IInv, Family, Emptied, Over
<1> QED BY <1>1, <1>2

LEMMA ContainedFollows == IInv => ContainedIsTrue
  BY FinalIsOver DEF ContainedIsTrue

\* Behind a final outcome everything the command started is gone and reaped.
THEOREM ContainedHolds == Spec => []ContainedIsTrue
<1> QED BY ContainedFollows, Invariance, PTL

-----------------------------------------------------------------------------
(* Who is left to hold the account lock.                                   *)

\* W is not running, and A can no longer make it.
Spent ==
    /\ ~Alive("W") /\ kid # "running"
    /\ InBody("A") => body["A"] # "create"
    /\ InBody("A") /\ body["A"] \in {"boot", "config"} => "CONFIG" \notin chan["CA"]

\* What C does after it has killed the group.
Past == {"probe", "confirm", "terminal", "kill", "reap", "sources", "create", "link",
         "sync", "relay", "report", "close"}
Held ==
    /\ has["C"] # "made" =>
          has["A"] = "none" /\ body["A"] \in {"none", "boot", "config"} /\ "CONFIG" \notin chan["CA"]
    /\ tail["C"] = "no" /\ body["C"] \notin Early["C"] => has["C"] = "made"
    /\ body["O"] # "boot"
    /\ tail["C"] \in Past => Spent
    /\ body["C"] # "none" /\ ~Alive("C") /\ status["C"] # "signal" => Spent

\* A status belongs to a process that has ended, and O and C end by a kill alone,
\* or C by its own exit.
Statuses ==
    /\ \A p \in Roles : proc[p] \in {"none", "alive"} => status[p] = "none"
    /\ \A p \in {"C", "A", "W"} : rcpt[p] # "none" => rcpt[p] = status[p]
    /\ status["W"] = "exit" => image = "target"
    /\ \A p \in {"C", "A"} : status[p] = "OK" => p \notin failed
Deaths ==
    (IF Alive("O") THEN 0 ELSE 1) + (IF status["C"] = "signal" THEN 1 ELSE 0) <= kills

\* Only an owner that failed kills the tool, and what is settled stays.
Blame ==
    /\ status["W"] = "killed" => "A" \in failed \/ "C" \in failed
    /\ tail["C"] # "no" /\ "C" \notin failed => "WORK_DONE" \in got["C"]
    /\ tail["A"] # "no" /\ "A" \notin failed => grp = "moved"
    /\ tail["A"] = "no" /\ body["A"] \in {"ready", "run", "wait"} => grp = "moved"
    /\ "WORK_DONE" \in chan["AC"] \cup got["C"] => work.producer = "yes"
    /\ work.producer = "yes" => ~Alive("W") /\ (has["A"] = "none" \/ rcpt["W"] # "none")
Settlement ==
    /\ work # NoWork => work.wait = Receipt(rcpt["W"])
    /\ term.result = "yes" => rcpt["A"] = "OK" /\ term.wait \in {"none", work.wait}
    /\ verdict.complete = "yes" /\ verdict.tag = "none" =>
          rcpt["C"] = "OK" /\ term.result = "yes" /\ verdict.wait = term.wait

Ending == Held /\ Statuses /\ Deaths /\ Blame /\ Settlement

LEMMA EndingInit == Init => Ending
<1> SUFFICES ASSUME Init PROVE Ending
  OBVIOUS
<1> USE DEF Init
<1>1. Held
  BY DEF Held, Past, Early
<1>2. Statuses
  BY DEF Statuses
<1>3. Deaths
  BY BoundsAssumption DEF Deaths
<1>4. Blame
  BY DEF Blame, NoWork
<1>5. Settlement
  BY DEF Settlement, NoTerm, NoVerdict
<1> QED BY <1>1, <1>2, <1>3, <1>4, <1>5 DEF Ending

LEMMA HeldNext ==
  /\ WorldType /\ WireType /\ StageType /\ Family /\ Dispatch /\ Emptied
  /\ Held
  /\ [Next]_vars
  => Held'
<1> USE DEF WorldType, WireType, StageType, Family, Dispatch, Emptied, Held,
            Early, Spent, Past, Ends, Fall, KillGroup, InGroup, Unwinds,
            Attempt, Cause, GrantStage, NextStage, SpawnStage, MaySpawn, Born,
            Grants, Reap, Poisons, Next1, Closed, Eof, Writer, YesNo, WaitsIn,
            Pumps, FenceStep, FenceNext, Tried
<1> DEFINE Given == WorldType /\ WireType /\ StageType /\ Family /\ Dispatch /\ Emptied /\ Held
<1>1. ASSUME Given, WHello PROVE Held'
  BY <1>1 DEF WHello
<1>2. ASSUME Given, WReady PROVE Held'
  BY <1>2 DEF WReady
<1>3. ASSUME Given, WArm PROVE Held'
  BY <1>3 DEF WArm
<1>4. ASSUME Given, WExec PROVE Held'
  BY <1>4 DEF WExec
<1>5. ASSUME Given, WReject PROVE Held'
  BY <1>5 DEF WReject
<1>6. ASSUME Given, WEnds(FALSE) PROVE Held'
  BY <1>6 DEF WEnds, HearsParent, ParentLost, Starved
<1>7. ASSUME Given, WEnds(TRUE) PROVE Held'
  BY <1>7 DEF WEnds, HearsParent, ParentLost, Starved
<1>8. ASSUME Given, ToolForks PROVE Held'
  BY <1>8 DEF ToolForks
<1>9. ASSUME Given, ToolEnds PROVE Held'
  BY <1>9 DEF ToolEnds
<1>10. ASSUME Given, KidEnds PROVE Held'
  BY <1>10 DEF KidEnds
<1>11. ASSUME Given, AHello PROVE Held'
  BY <1>11 DEF AHello
<1>12. ASSUME Given, APrepared PROVE Held'
  BY <1>12 DEF APrepared
<1>13. ASSUME Given, AMoves PROVE Held'
  BY <1>13 DEF AMoves
<1>14. ASSUME Given, AReady PROVE Held'
  BY <1>14 DEF AReady
<1>15. ASSUME Given, AReaps PROVE Held'
  BY <1>15 DEF AReaps
<1>16. ASSUME Given, AWaited PROVE Held'
  BY <1>16 DEF AWaited
<1>17. ASSUME Given, ASettleNoChild PROVE Held'
  BY <1>17 DEF ASettleNoChild
<1>18. ASSUME Given, ASettleUnmoved PROVE Held'
  BY <1>18 DEF ASettleUnmoved
<1>19. ASSUME Given, ASettleChild PROVE Held'
  BY <1>19 DEF ASettleChild
<1>20. ASSUME Given, AWaitsW PROVE Held'
  BY <1>20 DEF AWaitsW
<1>21. ASSUME Given, ADrained PROVE Held'
  BY <1>21 DEF ADrained
<1>22. ASSUME Given, AWorkDone PROVE Held'
  BY <1>22 DEF AWorkDone, AProducers, Receipt
<1>23. ASSUME Given, AGroupLost PROVE Held'
  BY <1>23 DEF AGroupLost
<1>24. ASSUME Given, AExits PROVE Held'
  BY <1>24 DEF AExits, ExitCode
<1>25. ASSUME Given, CHello PROVE Held'
  BY <1>25 DEF CHello
<1>26. ASSUME Given, CConfig PROVE Held'
  BY <1>26 DEF CConfig
<1>27. ASSUME Given, CAdmitsAnchor PROVE Held'
  BY <1>27 DEF CAdmitsAnchor
<1>28. ASSUME Given, CPrepared PROVE Held'
  BY <1>28 DEF CPrepared
<1>29. ASSUME Given, CReady PROVE Held'
  BY <1>29 DEF CReady
<1>30. ASSUME Given, CWorkDone PROVE Held'
  BY <1>30 DEF CWorkDone
<1>31. ASSUME Given, CSettle PROVE Held'
  BY <1>31 DEF CSettle
<1>32. ASSUME Given, CTerminates PROVE Held'
  BY <1>32 DEF CTerminates, GroupEmpty
<1>33. ASSUME Given, CProbes PROVE Held'
  BY <1>33 DEF CProbes, GroupEmpty
<1>34. ASSUME Given, CConfirms PROVE Held'
  BY <1>34 DEF CConfirms
<1>35. ASSUME Given, CTerminal PROVE Held'
  BY <1>35 DEF CTerminal
<1>36. ASSUME Given, CKillsAnchor PROVE Held'
  BY <1>36 DEF CKillsAnchor
<1>37. ASSUME Given, CReaps PROVE Held'
  BY <1>37 DEF CReaps
<1>38. ASSUME Given, CSeals PROVE Held'
  BY <1>38 DEF CSeals, CProducers, SourcesEnded
<1>39. ASSUME Given, CPublishes PROVE Held'
  BY <1>39 DEF CPublishes
<1>40. ASSUME Given, CPublishesLate PROVE Held'
  BY <1>40 DEF CPublishesLate
<1>41. ASSUME Given, CRelays PROVE Held'
  BY <1>41 DEF CRelays
<1>42. ASSUME Given, CReports PROVE Held'
  BY <1>42 DEF CReports, NoTarget
<1>43. ASSUME Given, CExits PROVE Held'
  BY <1>43 DEF CExits, ExitCode
<1>44. ASSUME Given, OConfig PROVE Held'
  BY <1>44 DEF OConfig
<1>45. ASSUME Given, OPrepared PROVE Held'
  BY <1>45 DEF OPrepared
<1>46. ASSUME Given, OWaited PROVE Held'
  BY <1>46 DEF OWaited
<1>47. ASSUME Given, OSettle PROVE Held'
  BY <1>47 DEF OSettle
<1>48. ASSUME Given, ODrained PROVE Held'
  BY <1>48 DEF ODrained
<1>49. ASSUME Given, OWaitsC PROVE Held'
  BY <1>49 DEF OWaitsC
<1>50. ASSUME Given, OPublishes PROVE Held'
  BY <1>50 DEF OPublishes, Complete, Finality, Tag
<1>51. ASSUME Given, NEW t \in Tags, AFrame(t) PROVE Held'
  BY <1>51 DEF AFrame, AAdmits
<1>52. ASSUME Given, NEW t \in Tags, AGroup(t) PROVE Held'
  BY <1>52 DEF AGroup
<1>53. ASSUME Given, NEW t \in Tags, CFrame(t) PROVE Held'
  BY <1>53 DEF CFrame, CAdmits
<1>54. ASSUME Given, NEW t \in Tags, OFrame(t) PROVE Held'
  BY <1>54 DEF OFrame, OAdmits, TerminalFits
<1>55. ASSUME Given, NEW p \in Owners, Spawn(p) PROVE Held'
  <2>1. CASE p = "O"
    BY <1>55, <2>1 DEF Spawn
  <2>2. CASE p = "C"
    BY <1>55, <2>2 DEF Spawn
  <2>3. CASE p = "A"
    BY <1>55, <2>3 DEF Spawn
  <2> QED BY <2>1, <2>2, <2>3
<1>56. ASSUME Given, NEW p \in Owners, Grant(p) PROVE Held'
  <2>1. CASE p = "O"
    BY <1>56, <2>1 DEF Grant
  <2>2. CASE p = "C"
    BY <1>56, <2>2 DEF Grant
  <2>3. CASE p = "A"
    BY <1>56, <2>3 DEF Grant
  <2> QED BY <2>1, <2>2, <2>3
<1>57. ASSUME Given, NEW p \in Owners, Unwind(p) PROVE Held'
  BY <1>57 DEF Unwind, HearsParent, ParentLost, Starved, Stopped, Unarmed
<1>58. ASSUME Given, NEW p \in Owners, Stop(p) PROVE Held'
  BY <1>58 DEF Stop, HearsParent, Stopped
<1>59. ASSUME Given, NEW p \in Owners, DrainPoisoned(p) PROVE Held'
  BY <1>59 DEF DrainPoisoned
<1>60. ASSUME Given, NEW p \in Owners, SpawnLost(p) PROVE Held'
  <2>1. CASE p = "O"
    BY <1>60, <2>1 DEF SpawnLost
  <2>2. CASE p = "C"
    BY <1>60, <2>2 DEF SpawnLost
  <2>3. CASE p = "A"
    BY <1>60, <2>3 DEF SpawnLost
  <2> QED BY <2>1, <2>2, <2>3
<1>61. ASSUME Given, NEW p \in Owners, GrantLost(p) PROVE Held'
  <2>1. CASE p = "O"
    BY <1>61, <2>1 DEF GrantLost
  <2>2. CASE p = "C"
    BY <1>61, <2>2 DEF GrantLost
  <2>3. CASE p = "A"
    BY <1>61, <2>3 DEF GrantLost
  <2> QED BY <2>1, <2>2, <2>3
<1>62. ASSUME Given, NEW p \in Owners, BodyFault(p) PROVE Held'
  BY <1>62 DEF BodyFault
<1>63. ASSUME Given, NEW p \in Owners, CleanupFault(p) PROVE Held'
  BY <1>63 DEF CleanupFault
<1>64. ASSUME Given, NEW p \in Owners, Cutoff(p) PROVE Held'
  BY <1>64 DEF Cutoff
<1>65. ASSUME Given, NEW p \in Roles, Kill(p) PROVE Held'
  BY <1>65 DEF Kill
<1>66. ASSUME Given, Deadline PROVE Held'
  BY <1>66 DEF Deadline
<1>67. ASSUME Given, CPublishFails PROVE Held'
  BY <1>67 DEF CPublishFails
<1>68. ASSUME Given, Finished PROVE Held'
  BY <1>68 DEF Finished, vars
<1>69. ASSUME Given, UNCHANGED vars PROVE Held'
  BY <1>69 DEF vars
<1> HIDE DEF WorldType, WireType, StageType, Family, Dispatch, Emptied, Held
<1> QED BY <1>1, <1>2, <1>3, <1>4, <1>5, <1>6, <1>7, <1>8, <1>9, <1>10, <1>11,
     <1>12, <1>13, <1>14, <1>15, <1>16, <1>17, <1>18, <1>19, <1>20, <1>21,
     <1>22, <1>23, <1>24, <1>25, <1>26, <1>27, <1>28, <1>29, <1>30, <1>31,
     <1>32, <1>33, <1>34, <1>35, <1>36, <1>37, <1>38, <1>39, <1>40, <1>41,
     <1>42, <1>43, <1>44, <1>45, <1>46, <1>47, <1>48, <1>49, <1>50, <1>51,
     <1>52, <1>53, <1>54, <1>55, <1>56, <1>57, <1>58, <1>59, <1>60, <1>61,
     <1>62, <1>63, <1>64, <1>65, <1>66, <1>67, <1>68, <1>69
  DEF Next, Worker, Tool, Anchor, Custodian, Outer, Shared, Trouble

LEMMA StatusesNext ==
  /\ WorldType /\ StageType /\ MarkType /\ Family /\ Dispatch /\ Statuses
  /\ [Next]_vars
  => Statuses'
<1> USE DEF WorldType, StageType, MarkType, Family, Dispatch, Statuses, Early,
            Ends, Fall, KillGroup, InGroup, Unwinds, Attempt, Cause,
            GrantStage, NextStage, SpawnStage, MaySpawn, Born, Grants, Reap,
            Poisons, Next1, Closed, Eof, Writer, YesNo, WaitsIn, Pumps,
            FenceStep, FenceNext, Tried
<1> DEFINE Given == WorldType /\ StageType /\ MarkType /\ Family /\ Dispatch /\ Statuses
<1>1. ASSUME Given, WHello PROVE Statuses'
  BY <1>1 DEF WHello
<1>2. ASSUME Given, WReady PROVE Statuses'
  BY <1>2 DEF WReady
<1>3. ASSUME Given, WArm PROVE Statuses'
  BY <1>3 DEF WArm
<1>4. ASSUME Given, WExec PROVE Statuses'
  BY <1>4 DEF WExec
<1>5. ASSUME Given, WReject PROVE Statuses'
  BY <1>5 DEF WReject
<1>6. ASSUME Given, WEnds(FALSE) PROVE Statuses'
  BY <1>6 DEF WEnds, HearsParent, ParentLost, Starved
<1>7. ASSUME Given, WEnds(TRUE) PROVE Statuses'
  BY <1>7 DEF WEnds, HearsParent, ParentLost, Starved
<1>8. ASSUME Given, ToolForks PROVE Statuses'
  BY <1>8 DEF ToolForks
<1>9. ASSUME Given, ToolEnds PROVE Statuses'
  BY <1>9 DEF ToolEnds
<1>10. ASSUME Given, KidEnds PROVE Statuses'
  BY <1>10 DEF KidEnds
<1>11. ASSUME Given, AHello PROVE Statuses'
  BY <1>11 DEF AHello
<1>12. ASSUME Given, APrepared PROVE Statuses'
  BY <1>12 DEF APrepared
<1>13. ASSUME Given, AMoves PROVE Statuses'
  BY <1>13 DEF AMoves
<1>14. ASSUME Given, AReady PROVE Statuses'
  BY <1>14 DEF AReady
<1>15. ASSUME Given, AReaps PROVE Statuses'
  BY <1>15 DEF AReaps
<1>16. ASSUME Given, AWaited PROVE Statuses'
  BY <1>16 DEF AWaited
<1>17. ASSUME Given, ASettleNoChild PROVE Statuses'
  BY <1>17 DEF ASettleNoChild
<1>18. ASSUME Given, ASettleUnmoved PROVE Statuses'
  BY <1>18 DEF ASettleUnmoved
<1>19. ASSUME Given, ASettleChild PROVE Statuses'
  BY <1>19 DEF ASettleChild
<1>20. ASSUME Given, AWaitsW PROVE Statuses'
  BY <1>20 DEF AWaitsW
<1>21. ASSUME Given, ADrained PROVE Statuses'
  BY <1>21 DEF ADrained
<1>22. ASSUME Given, AWorkDone PROVE Statuses'
  BY <1>22 DEF AWorkDone, AProducers, Receipt
<1>23. ASSUME Given, AGroupLost PROVE Statuses'
  BY <1>23 DEF AGroupLost
<1>24. ASSUME Given, AExits PROVE Statuses'
  BY <1>24 DEF AExits, ExitCode
<1>25. ASSUME Given, CHello PROVE Statuses'
  BY <1>25 DEF CHello
<1>26. ASSUME Given, CConfig PROVE Statuses'
  BY <1>26 DEF CConfig
<1>27. ASSUME Given, CAdmitsAnchor PROVE Statuses'
  BY <1>27 DEF CAdmitsAnchor
<1>28. ASSUME Given, CPrepared PROVE Statuses'
  BY <1>28 DEF CPrepared
<1>29. ASSUME Given, CReady PROVE Statuses'
  BY <1>29 DEF CReady
<1>30. ASSUME Given, CWorkDone PROVE Statuses'
  BY <1>30 DEF CWorkDone
<1>31. ASSUME Given, CSettle PROVE Statuses'
  BY <1>31 DEF CSettle
<1>32. ASSUME Given, CTerminates PROVE Statuses'
  BY <1>32 DEF CTerminates, GroupEmpty
<1>33. ASSUME Given, CProbes PROVE Statuses'
  BY <1>33 DEF CProbes, GroupEmpty
<1>34. ASSUME Given, CConfirms PROVE Statuses'
  BY <1>34 DEF CConfirms
<1>35. ASSUME Given, CTerminal PROVE Statuses'
  BY <1>35 DEF CTerminal
<1>36. ASSUME Given, CKillsAnchor PROVE Statuses'
  BY <1>36 DEF CKillsAnchor
<1>37. ASSUME Given, CReaps PROVE Statuses'
  BY <1>37 DEF CReaps
<1>38. ASSUME Given, CSeals PROVE Statuses'
  BY <1>38 DEF CSeals, CProducers, SourcesEnded
<1>39. ASSUME Given, CPublishes PROVE Statuses'
  BY <1>39 DEF CPublishes
<1>40. ASSUME Given, CPublishesLate PROVE Statuses'
  BY <1>40 DEF CPublishesLate
<1>41. ASSUME Given, CRelays PROVE Statuses'
  BY <1>41 DEF CRelays
<1>42. ASSUME Given, CReports PROVE Statuses'
  BY <1>42 DEF CReports, NoTarget
<1>43. ASSUME Given, CExits PROVE Statuses'
  BY <1>43 DEF CExits, ExitCode
<1>44. ASSUME Given, OConfig PROVE Statuses'
  BY <1>44 DEF OConfig
<1>45. ASSUME Given, OPrepared PROVE Statuses'
  BY <1>45 DEF OPrepared
<1>46. ASSUME Given, OWaited PROVE Statuses'
  BY <1>46 DEF OWaited
<1>47. ASSUME Given, OSettle PROVE Statuses'
  BY <1>47 DEF OSettle
<1>48. ASSUME Given, ODrained PROVE Statuses'
  BY <1>48 DEF ODrained
<1>49. ASSUME Given, OWaitsC PROVE Statuses'
  BY <1>49 DEF OWaitsC
<1>50. ASSUME Given, OPublishes PROVE Statuses'
  BY <1>50 DEF OPublishes, Complete, Finality, Tag
<1>51. ASSUME Given, NEW t \in Tags, AFrame(t) PROVE Statuses'
  BY <1>51 DEF AFrame, AAdmits
<1>52. ASSUME Given, NEW t \in Tags, AGroup(t) PROVE Statuses'
  BY <1>52 DEF AGroup
<1>53. ASSUME Given, NEW t \in Tags, CFrame(t) PROVE Statuses'
  BY <1>53 DEF CFrame, CAdmits
<1>54. ASSUME Given, NEW t \in Tags, OFrame(t) PROVE Statuses'
  BY <1>54 DEF OFrame, OAdmits, TerminalFits
<1>55. ASSUME Given, NEW p \in Owners, Spawn(p) PROVE Statuses'
  <2>1. CASE p = "O"
    BY <1>55, <2>1 DEF Spawn
  <2>2. CASE p = "C"
    BY <1>55, <2>2 DEF Spawn
  <2>3. CASE p = "A"
    BY <1>55, <2>3 DEF Spawn
  <2> QED BY <2>1, <2>2, <2>3
<1>56. ASSUME Given, NEW p \in Owners, Grant(p) PROVE Statuses'
  <2>1. CASE p = "O"
    BY <1>56, <2>1 DEF Grant
  <2>2. CASE p = "C"
    BY <1>56, <2>2 DEF Grant
  <2>3. CASE p = "A"
    BY <1>56, <2>3 DEF Grant
  <2> QED BY <2>1, <2>2, <2>3
<1>57. ASSUME Given, NEW p \in Owners, Unwind(p) PROVE Statuses'
  BY <1>57 DEF Unwind, HearsParent, ParentLost, Starved, Stopped, Unarmed
<1>58. ASSUME Given, NEW p \in Owners, Stop(p) PROVE Statuses'
  BY <1>58 DEF Stop, HearsParent, Stopped
<1>59. ASSUME Given, NEW p \in Owners, DrainPoisoned(p) PROVE Statuses'
  BY <1>59 DEF DrainPoisoned
<1>60. ASSUME Given, NEW p \in Owners, SpawnLost(p) PROVE Statuses'
  <2>1. CASE p = "O"
    BY <1>60, <2>1 DEF SpawnLost
  <2>2. CASE p = "C"
    BY <1>60, <2>2 DEF SpawnLost
  <2>3. CASE p = "A"
    BY <1>60, <2>3 DEF SpawnLost
  <2> QED BY <2>1, <2>2, <2>3
<1>61. ASSUME Given, NEW p \in Owners, GrantLost(p) PROVE Statuses'
  <2>1. CASE p = "O"
    BY <1>61, <2>1 DEF GrantLost
  <2>2. CASE p = "C"
    BY <1>61, <2>2 DEF GrantLost
  <2>3. CASE p = "A"
    BY <1>61, <2>3 DEF GrantLost
  <2> QED BY <2>1, <2>2, <2>3
<1>62. ASSUME Given, NEW p \in Owners, BodyFault(p) PROVE Statuses'
  BY <1>62 DEF BodyFault
<1>63. ASSUME Given, NEW p \in Owners, CleanupFault(p) PROVE Statuses'
  BY <1>63 DEF CleanupFault
<1>64. ASSUME Given, NEW p \in Owners, Cutoff(p) PROVE Statuses'
  BY <1>64 DEF Cutoff
<1>65. ASSUME Given, NEW p \in Roles, Kill(p) PROVE Statuses'
  BY <1>65 DEF Kill
<1>66. ASSUME Given, Deadline PROVE Statuses'
  BY <1>66 DEF Deadline
<1>67. ASSUME Given, CPublishFails PROVE Statuses'
  BY <1>67 DEF CPublishFails
<1>68. ASSUME Given, Finished PROVE Statuses'
  BY <1>68 DEF Finished, vars
<1>69. ASSUME Given, UNCHANGED vars PROVE Statuses'
  BY <1>69 DEF vars
<1> HIDE DEF WorldType, StageType, MarkType, Family, Dispatch, Statuses
<1> QED BY <1>1, <1>2, <1>3, <1>4, <1>5, <1>6, <1>7, <1>8, <1>9, <1>10, <1>11,
     <1>12, <1>13, <1>14, <1>15, <1>16, <1>17, <1>18, <1>19, <1>20, <1>21,
     <1>22, <1>23, <1>24, <1>25, <1>26, <1>27, <1>28, <1>29, <1>30, <1>31,
     <1>32, <1>33, <1>34, <1>35, <1>36, <1>37, <1>38, <1>39, <1>40, <1>41,
     <1>42, <1>43, <1>44, <1>45, <1>46, <1>47, <1>48, <1>49, <1>50, <1>51,
     <1>52, <1>53, <1>54, <1>55, <1>56, <1>57, <1>58, <1>59, <1>60, <1>61,
     <1>62, <1>63, <1>64, <1>65, <1>66, <1>67, <1>68, <1>69
  DEF Next, Worker, Tool, Anchor, Custodian, Outer, Shared, Trouble

LEMMA DeathsNext ==
  /\ WorldType /\ CountType /\ Held /\ Statuses /\ Deaths
  /\ [Next]_vars
  => Deaths'
<1> USE DEF WorldType, CountType, Held, Statuses, Deaths, Ends, Fall,
            KillGroup, InGroup, Unwinds, Attempt, Cause, GrantStage,
            NextStage, SpawnStage, MaySpawn, Born, Grants, Reap, Poisons,
            Next1, Closed, Eof, Writer, YesNo, WaitsIn, Pumps, FenceStep,
            FenceNext, Tried
<1> DEFINE Given == WorldType /\ CountType /\ Held /\ Statuses /\ Deaths
<1>1. ASSUME Given, WHello PROVE Deaths'
  BY <1>1 DEF WHello
<1>2. ASSUME Given, WReady PROVE Deaths'
  BY <1>2 DEF WReady
<1>3. ASSUME Given, WArm PROVE Deaths'
  BY <1>3 DEF WArm
<1>4. ASSUME Given, WExec PROVE Deaths'
  BY <1>4 DEF WExec
<1>5. ASSUME Given, WReject PROVE Deaths'
  BY <1>5 DEF WReject
<1>6. ASSUME Given, WEnds(FALSE) PROVE Deaths'
  BY <1>6 DEF WEnds, HearsParent, ParentLost, Starved
<1>7. ASSUME Given, WEnds(TRUE) PROVE Deaths'
  BY <1>7 DEF WEnds, HearsParent, ParentLost, Starved
<1>8. ASSUME Given, ToolForks PROVE Deaths'
  BY <1>8 DEF ToolForks
<1>9. ASSUME Given, ToolEnds PROVE Deaths'
  BY <1>9 DEF ToolEnds
<1>10. ASSUME Given, KidEnds PROVE Deaths'
  BY <1>10 DEF KidEnds
<1>11. ASSUME Given, AHello PROVE Deaths'
  BY <1>11 DEF AHello
<1>12. ASSUME Given, APrepared PROVE Deaths'
  BY <1>12 DEF APrepared
<1>13. ASSUME Given, AMoves PROVE Deaths'
  BY <1>13 DEF AMoves
<1>14. ASSUME Given, AReady PROVE Deaths'
  BY <1>14 DEF AReady
<1>15. ASSUME Given, AReaps PROVE Deaths'
  BY <1>15 DEF AReaps
<1>16. ASSUME Given, AWaited PROVE Deaths'
  BY <1>16 DEF AWaited
<1>17. ASSUME Given, ASettleNoChild PROVE Deaths'
  BY <1>17 DEF ASettleNoChild
<1>18. ASSUME Given, ASettleUnmoved PROVE Deaths'
  BY <1>18 DEF ASettleUnmoved
<1>19. ASSUME Given, ASettleChild PROVE Deaths'
  BY <1>19 DEF ASettleChild
<1>20. ASSUME Given, AWaitsW PROVE Deaths'
  BY <1>20 DEF AWaitsW
<1>21. ASSUME Given, ADrained PROVE Deaths'
  BY <1>21 DEF ADrained
<1>22. ASSUME Given, AWorkDone PROVE Deaths'
  BY <1>22 DEF AWorkDone, AProducers, Receipt
<1>23. ASSUME Given, AGroupLost PROVE Deaths'
  BY <1>23 DEF AGroupLost
<1>24. ASSUME Given, AExits PROVE Deaths'
  BY <1>24 DEF AExits, ExitCode
<1>25. ASSUME Given, CHello PROVE Deaths'
  BY <1>25 DEF CHello
<1>26. ASSUME Given, CConfig PROVE Deaths'
  BY <1>26 DEF CConfig
<1>27. ASSUME Given, CAdmitsAnchor PROVE Deaths'
  BY <1>27 DEF CAdmitsAnchor
<1>28. ASSUME Given, CPrepared PROVE Deaths'
  BY <1>28 DEF CPrepared
<1>29. ASSUME Given, CReady PROVE Deaths'
  BY <1>29 DEF CReady
<1>30. ASSUME Given, CWorkDone PROVE Deaths'
  BY <1>30 DEF CWorkDone
<1>31. ASSUME Given, CSettle PROVE Deaths'
  BY <1>31 DEF CSettle
<1>32. ASSUME Given, CTerminates PROVE Deaths'
  BY <1>32 DEF CTerminates, GroupEmpty
<1>33. ASSUME Given, CProbes PROVE Deaths'
  BY <1>33 DEF CProbes, GroupEmpty
<1>34. ASSUME Given, CConfirms PROVE Deaths'
  BY <1>34 DEF CConfirms
<1>35. ASSUME Given, CTerminal PROVE Deaths'
  BY <1>35 DEF CTerminal
<1>36. ASSUME Given, CKillsAnchor PROVE Deaths'
  BY <1>36 DEF CKillsAnchor
<1>37. ASSUME Given, CReaps PROVE Deaths'
  BY <1>37 DEF CReaps
<1>38. ASSUME Given, CSeals PROVE Deaths'
  BY <1>38 DEF CSeals, CProducers, SourcesEnded
<1>39. ASSUME Given, CPublishes PROVE Deaths'
  BY <1>39 DEF CPublishes
<1>40. ASSUME Given, CPublishesLate PROVE Deaths'
  BY <1>40 DEF CPublishesLate
<1>41. ASSUME Given, CRelays PROVE Deaths'
  BY <1>41 DEF CRelays
<1>42. ASSUME Given, CReports PROVE Deaths'
  BY <1>42 DEF CReports, NoTarget
<1>43. ASSUME Given, CExits PROVE Deaths'
  BY <1>43 DEF CExits, ExitCode
<1>44. ASSUME Given, OConfig PROVE Deaths'
  BY <1>44 DEF OConfig
<1>45. ASSUME Given, OPrepared PROVE Deaths'
  BY <1>45 DEF OPrepared
<1>46. ASSUME Given, OWaited PROVE Deaths'
  BY <1>46 DEF OWaited
<1>47. ASSUME Given, OSettle PROVE Deaths'
  BY <1>47 DEF OSettle
<1>48. ASSUME Given, ODrained PROVE Deaths'
  BY <1>48 DEF ODrained
<1>49. ASSUME Given, OWaitsC PROVE Deaths'
  BY <1>49 DEF OWaitsC
<1>50. ASSUME Given, OPublishes PROVE Deaths'
  BY <1>50 DEF OPublishes, Complete, Finality, Tag
<1>51. ASSUME Given, NEW t \in Tags, AFrame(t) PROVE Deaths'
  BY <1>51 DEF AFrame, AAdmits
<1>52. ASSUME Given, NEW t \in Tags, AGroup(t) PROVE Deaths'
  BY <1>52 DEF AGroup
<1>53. ASSUME Given, NEW t \in Tags, CFrame(t) PROVE Deaths'
  BY <1>53 DEF CFrame, CAdmits
<1>54. ASSUME Given, NEW t \in Tags, OFrame(t) PROVE Deaths'
  BY <1>54 DEF OFrame, OAdmits, TerminalFits
<1>55. ASSUME Given, NEW p \in Owners, Spawn(p) PROVE Deaths'
  BY <1>55 DEF Spawn
<1>56. ASSUME Given, NEW p \in Owners, Grant(p) PROVE Deaths'
  BY <1>56 DEF Grant
<1>57. ASSUME Given, NEW p \in Owners, Unwind(p) PROVE Deaths'
  BY <1>57 DEF Unwind, HearsParent, ParentLost, Starved, Stopped, Unarmed
<1>58. ASSUME Given, NEW p \in Owners, Stop(p) PROVE Deaths'
  BY <1>58 DEF Stop, HearsParent, Stopped
<1>59. ASSUME Given, NEW p \in Owners, DrainPoisoned(p) PROVE Deaths'
  BY <1>59 DEF DrainPoisoned
<1>60. ASSUME Given, NEW p \in Owners, SpawnLost(p) PROVE Deaths'
  BY <1>60 DEF SpawnLost
<1>61. ASSUME Given, NEW p \in Owners, GrantLost(p) PROVE Deaths'
  BY <1>61 DEF GrantLost
<1>62. ASSUME Given, NEW p \in Owners, BodyFault(p) PROVE Deaths'
  BY <1>62 DEF BodyFault
<1>63. ASSUME Given, NEW p \in Owners, CleanupFault(p) PROVE Deaths'
  BY <1>63 DEF CleanupFault
<1>64. ASSUME Given, NEW p \in Owners, Cutoff(p) PROVE Deaths'
  BY <1>64 DEF Cutoff
<1>65. ASSUME Given, NEW p \in Roles, Kill(p) PROVE Deaths'
  BY <1>65 DEF Kill
<1>66. ASSUME Given, Deadline PROVE Deaths'
  BY <1>66 DEF Deadline
<1>67. ASSUME Given, CPublishFails PROVE Deaths'
  BY <1>67 DEF CPublishFails
<1>68. ASSUME Given, Finished PROVE Deaths'
  BY <1>68 DEF Finished, vars
<1>69. ASSUME Given, UNCHANGED vars PROVE Deaths'
  BY <1>69 DEF vars
<1> HIDE DEF WorldType, CountType, Held, Statuses, Deaths
<1> QED BY <1>1, <1>2, <1>3, <1>4, <1>5, <1>6, <1>7, <1>8, <1>9, <1>10, <1>11,
     <1>12, <1>13, <1>14, <1>15, <1>16, <1>17, <1>18, <1>19, <1>20, <1>21,
     <1>22, <1>23, <1>24, <1>25, <1>26, <1>27, <1>28, <1>29, <1>30, <1>31,
     <1>32, <1>33, <1>34, <1>35, <1>36, <1>37, <1>38, <1>39, <1>40, <1>41,
     <1>42, <1>43, <1>44, <1>45, <1>46, <1>47, <1>48, <1>49, <1>50, <1>51,
     <1>52, <1>53, <1>54, <1>55, <1>56, <1>57, <1>58, <1>59, <1>60, <1>61,
     <1>62, <1>63, <1>64, <1>65, <1>66, <1>67, <1>68, <1>69
  DEF Next, Worker, Tool, Anchor, Custodian, Outer, Shared, Trouble

LEMMA BlameNext ==
  /\ WorldType /\ WireType /\ StageType /\ MarkType /\ RecordType /\ Family
  /\ Dispatch /\ Records /\ Emptied /\ Statuses /\ Blame
  /\ [Next]_vars
  => Blame'
<1> USE DEF WorldType, WireType, StageType, MarkType, RecordType, Family,
            Dispatch, Records, Emptied, Statuses, Blame, Early, NoWork, Ends,
            Fall, KillGroup, InGroup, Unwinds, Attempt, Cause, GrantStage,
            NextStage, SpawnStage, MaySpawn, Born, Grants, Reap, Poisons,
            Next1, Closed, Eof, Writer, YesNo, WaitsIn, Pumps, FenceStep,
            FenceNext, Tried
<1> DEFINE Given == WorldType /\ WireType /\ StageType /\ MarkType /\ RecordType /\ Family
                    /\ Dispatch /\ Records /\ Emptied /\ Statuses /\ Blame
<1>1. ASSUME Given, WHello PROVE Blame'
  BY <1>1 DEF WHello
<1>2. ASSUME Given, WReady PROVE Blame'
  BY <1>2 DEF WReady
<1>3. ASSUME Given, WArm PROVE Blame'
  BY <1>3 DEF WArm
<1>4. ASSUME Given, WExec PROVE Blame'
  BY <1>4 DEF WExec
<1>5. ASSUME Given, WReject PROVE Blame'
  BY <1>5 DEF WReject
<1>6. ASSUME Given, WEnds(FALSE) PROVE Blame'
  BY <1>6 DEF WEnds, HearsParent, ParentLost, Starved
<1>7. ASSUME Given, WEnds(TRUE) PROVE Blame'
  BY <1>7 DEF WEnds, HearsParent, ParentLost, Starved
<1>8. ASSUME Given, ToolForks PROVE Blame'
  BY <1>8 DEF ToolForks
<1>9. ASSUME Given, ToolEnds PROVE Blame'
  BY <1>9 DEF ToolEnds
<1>10. ASSUME Given, KidEnds PROVE Blame'
  BY <1>10 DEF KidEnds
<1>11. ASSUME Given, AHello PROVE Blame'
  BY <1>11 DEF AHello
<1>12. ASSUME Given, APrepared PROVE Blame'
  BY <1>12 DEF APrepared
<1>13. ASSUME Given, AMoves PROVE Blame'
  BY <1>13 DEF AMoves
<1>14. ASSUME Given, AReady PROVE Blame'
  BY <1>14 DEF AReady
<1>15. ASSUME Given, AReaps PROVE Blame'
  BY <1>15 DEF AReaps
<1>16. ASSUME Given, AWaited PROVE Blame'
  BY <1>16 DEF AWaited
<1>17. ASSUME Given, ASettleNoChild PROVE Blame'
  BY <1>17 DEF ASettleNoChild
<1>18. ASSUME Given, ASettleUnmoved PROVE Blame'
  BY <1>18 DEF ASettleUnmoved
<1>19. ASSUME Given, ASettleChild PROVE Blame'
  BY <1>19 DEF ASettleChild
<1>20. ASSUME Given, AWaitsW PROVE Blame'
  BY <1>20 DEF AWaitsW
<1>21. ASSUME Given, ADrained PROVE Blame'
  BY <1>21 DEF ADrained
<1>22. ASSUME Given, AWorkDone PROVE Blame'
  BY <1>22 DEF AWorkDone, AProducers, Receipt
<1>23. ASSUME Given, AGroupLost PROVE Blame'
  BY <1>23 DEF AGroupLost
<1>24. ASSUME Given, AExits PROVE Blame'
  BY <1>24 DEF AExits, ExitCode
<1>25. ASSUME Given, CHello PROVE Blame'
  BY <1>25 DEF CHello
<1>26. ASSUME Given, CConfig PROVE Blame'
  BY <1>26 DEF CConfig
<1>27. ASSUME Given, CAdmitsAnchor PROVE Blame'
  BY <1>27 DEF CAdmitsAnchor
<1>28. ASSUME Given, CPrepared PROVE Blame'
  BY <1>28 DEF CPrepared
<1>29. ASSUME Given, CReady PROVE Blame'
  BY <1>29 DEF CReady
<1>30. ASSUME Given, CWorkDone PROVE Blame'
  BY <1>30 DEF CWorkDone
<1>31. ASSUME Given, CSettle PROVE Blame'
  BY <1>31 DEF CSettle
<1>32. ASSUME Given, CTerminates PROVE Blame'
  BY <1>32 DEF CTerminates, GroupEmpty
<1>33. ASSUME Given, CProbes PROVE Blame'
  BY <1>33 DEF CProbes, GroupEmpty
<1>34. ASSUME Given, CConfirms PROVE Blame'
  BY <1>34 DEF CConfirms
<1>35. ASSUME Given, CTerminal PROVE Blame'
  BY <1>35 DEF CTerminal
<1>36. ASSUME Given, CKillsAnchor PROVE Blame'
  BY <1>36 DEF CKillsAnchor
<1>37. ASSUME Given, CReaps PROVE Blame'
  BY <1>37 DEF CReaps
<1>38. ASSUME Given, CSeals PROVE Blame'
  BY <1>38 DEF CSeals, CProducers, SourcesEnded
<1>39. ASSUME Given, CPublishes PROVE Blame'
  BY <1>39 DEF CPublishes
<1>40. ASSUME Given, CPublishesLate PROVE Blame'
  BY <1>40 DEF CPublishesLate
<1>41. ASSUME Given, CRelays PROVE Blame'
  BY <1>41 DEF CRelays
<1>42. ASSUME Given, CReports PROVE Blame'
  BY <1>42 DEF CReports, NoTarget
<1>43. ASSUME Given, CExits PROVE Blame'
  BY <1>43 DEF CExits, ExitCode
<1>44. ASSUME Given, OConfig PROVE Blame'
  BY <1>44 DEF OConfig
<1>45. ASSUME Given, OPrepared PROVE Blame'
  BY <1>45 DEF OPrepared
<1>46. ASSUME Given, OWaited PROVE Blame'
  BY <1>46 DEF OWaited
<1>47. ASSUME Given, OSettle PROVE Blame'
  BY <1>47 DEF OSettle
<1>48. ASSUME Given, ODrained PROVE Blame'
  BY <1>48 DEF ODrained
<1>49. ASSUME Given, OWaitsC PROVE Blame'
  BY <1>49 DEF OWaitsC
<1>50. ASSUME Given, OPublishes PROVE Blame'
  BY <1>50 DEF OPublishes, Complete, Finality, Tag
<1>51. ASSUME Given, NEW t \in Tags, AFrame(t) PROVE Blame'
  BY <1>51 DEF AFrame, AAdmits
<1>52. ASSUME Given, NEW t \in Tags, AGroup(t) PROVE Blame'
  BY <1>52 DEF AGroup
<1>53. ASSUME Given, NEW t \in Tags, CFrame(t) PROVE Blame'
  BY <1>53 DEF CFrame, CAdmits
<1>54. ASSUME Given, NEW t \in Tags, OFrame(t) PROVE Blame'
  BY <1>54 DEF OFrame, OAdmits, TerminalFits
<1>55. ASSUME Given, NEW p \in Owners, Spawn(p) PROVE Blame'
  <2>1. CASE p = "O"
    BY <1>55, <2>1 DEF Spawn
  <2>2. CASE p = "C"
    BY <1>55, <2>2 DEF Spawn
  <2>3. CASE p = "A"
    BY <1>55, <2>3 DEF Spawn
  <2> QED BY <2>1, <2>2, <2>3
<1>56. ASSUME Given, NEW p \in Owners, Grant(p) PROVE Blame'
  <2>1. CASE p = "O"
    BY <1>56, <2>1 DEF Grant
  <2>2. CASE p = "C"
    BY <1>56, <2>2 DEF Grant
  <2>3. CASE p = "A"
    BY <1>56, <2>3 DEF Grant
  <2> QED BY <2>1, <2>2, <2>3
<1>57. ASSUME Given, NEW p \in Owners, Unwind(p) PROVE Blame'
  BY <1>57 DEF Unwind, HearsParent, ParentLost, Starved, Stopped, Unarmed
<1>58. ASSUME Given, NEW p \in Owners, Stop(p) PROVE Blame'
  BY <1>58 DEF Stop, HearsParent, Stopped
<1>59. ASSUME Given, NEW p \in Owners, DrainPoisoned(p) PROVE Blame'
  BY <1>59 DEF DrainPoisoned
<1>60. ASSUME Given, NEW p \in Owners, SpawnLost(p) PROVE Blame'
  <2>1. CASE p = "O"
    BY <1>60, <2>1 DEF SpawnLost
  <2>2. CASE p = "C"
    BY <1>60, <2>2 DEF SpawnLost
  <2>3. CASE p = "A"
    BY <1>60, <2>3 DEF SpawnLost
  <2> QED BY <2>1, <2>2, <2>3
<1>61. ASSUME Given, NEW p \in Owners, GrantLost(p) PROVE Blame'
  <2>1. CASE p = "O"
    BY <1>61, <2>1 DEF GrantLost
  <2>2. CASE p = "C"
    BY <1>61, <2>2 DEF GrantLost
  <2>3. CASE p = "A"
    BY <1>61, <2>3 DEF GrantLost
  <2> QED BY <2>1, <2>2, <2>3
<1>62. ASSUME Given, NEW p \in Owners, BodyFault(p) PROVE Blame'
  BY <1>62 DEF BodyFault
<1>63. ASSUME Given, NEW p \in Owners, CleanupFault(p) PROVE Blame'
  BY <1>63 DEF CleanupFault
<1>64. ASSUME Given, NEW p \in Owners, Cutoff(p) PROVE Blame'
  BY <1>64 DEF Cutoff
<1>65. ASSUME Given, NEW p \in Roles, Kill(p) PROVE Blame'
  BY <1>65 DEF Kill
<1>66. ASSUME Given, Deadline PROVE Blame'
  BY <1>66 DEF Deadline
<1>67. ASSUME Given, CPublishFails PROVE Blame'
  BY <1>67 DEF CPublishFails
<1>68. ASSUME Given, Finished PROVE Blame'
  BY <1>68 DEF Finished, vars
<1>69. ASSUME Given, UNCHANGED vars PROVE Blame'
  BY <1>69 DEF vars
<1> HIDE DEF WorldType, WireType, StageType, MarkType, RecordType, Family, Dispatch, Records, Emptied, Statuses, Blame
<1> QED BY <1>1, <1>2, <1>3, <1>4, <1>5, <1>6, <1>7, <1>8, <1>9, <1>10, <1>11,
     <1>12, <1>13, <1>14, <1>15, <1>16, <1>17, <1>18, <1>19, <1>20, <1>21,
     <1>22, <1>23, <1>24, <1>25, <1>26, <1>27, <1>28, <1>29, <1>30, <1>31,
     <1>32, <1>33, <1>34, <1>35, <1>36, <1>37, <1>38, <1>39, <1>40, <1>41,
     <1>42, <1>43, <1>44, <1>45, <1>46, <1>47, <1>48, <1>49, <1>50, <1>51,
     <1>52, <1>53, <1>54, <1>55, <1>56, <1>57, <1>58, <1>59, <1>60, <1>61,
     <1>62, <1>63, <1>64, <1>65, <1>66, <1>67, <1>68, <1>69
  DEF Next, Worker, Tool, Anchor, Custodian, Outer, Shared, Trouble

LEMMA SettlementNext ==
  /\ WorldType /\ WireType /\ StageType /\ MarkType /\ RecordType /\ Family
  /\ Records /\ Statuses /\ Settlement
  /\ [Next]_vars
  => Settlement'
<1> USE DEF WorldType, WireType, StageType, MarkType, RecordType, Family,
            Records, Statuses, Settlement, Early, Ends, Fall, KillGroup,
            InGroup, Unwinds, Attempt, Cause, GrantStage, NextStage,
            SpawnStage, MaySpawn, Born, Grants, Reap, Poisons, Next1, Closed,
            Eof, Writer, YesNo, WaitsIn, Pumps, FenceStep, FenceNext, Tried
<1> DEFINE Given == WorldType /\ WireType /\ StageType /\ MarkType /\ RecordType /\ Family
                    /\ Records /\ Statuses /\ Settlement
<1>1. ASSUME Given, WHello PROVE Settlement'
  BY <1>1 DEF WHello
<1>2. ASSUME Given, WReady PROVE Settlement'
  BY <1>2 DEF WReady
<1>3. ASSUME Given, WArm PROVE Settlement'
  BY <1>3 DEF WArm
<1>4. ASSUME Given, WExec PROVE Settlement'
  BY <1>4 DEF WExec
<1>5. ASSUME Given, WReject PROVE Settlement'
  BY <1>5 DEF WReject
<1>6. ASSUME Given, WEnds(FALSE) PROVE Settlement'
  BY <1>6 DEF WEnds, HearsParent, ParentLost, Starved
<1>7. ASSUME Given, WEnds(TRUE) PROVE Settlement'
  BY <1>7 DEF WEnds, HearsParent, ParentLost, Starved
<1>8. ASSUME Given, ToolForks PROVE Settlement'
  BY <1>8 DEF ToolForks
<1>9. ASSUME Given, ToolEnds PROVE Settlement'
  BY <1>9 DEF ToolEnds
<1>10. ASSUME Given, KidEnds PROVE Settlement'
  BY <1>10 DEF KidEnds
<1>11. ASSUME Given, AHello PROVE Settlement'
  BY <1>11 DEF AHello
<1>12. ASSUME Given, APrepared PROVE Settlement'
  BY <1>12 DEF APrepared
<1>13. ASSUME Given, AMoves PROVE Settlement'
  BY <1>13 DEF AMoves
<1>14. ASSUME Given, AReady PROVE Settlement'
  BY <1>14 DEF AReady
<1>15. ASSUME Given, AReaps PROVE Settlement'
  BY <1>15 DEF AReaps
<1>16. ASSUME Given, AWaited PROVE Settlement'
  BY <1>16 DEF AWaited
<1>17. ASSUME Given, ASettleNoChild PROVE Settlement'
  BY <1>17 DEF ASettleNoChild
<1>18. ASSUME Given, ASettleUnmoved PROVE Settlement'
  BY <1>18 DEF ASettleUnmoved
<1>19. ASSUME Given, ASettleChild PROVE Settlement'
  BY <1>19 DEF ASettleChild
<1>20. ASSUME Given, AWaitsW PROVE Settlement'
  BY <1>20 DEF AWaitsW
<1>21. ASSUME Given, ADrained PROVE Settlement'
  BY <1>21 DEF ADrained
<1>22. ASSUME Given, AWorkDone PROVE Settlement'
  BY <1>22 DEF AWorkDone, AProducers, Receipt
<1>23. ASSUME Given, AGroupLost PROVE Settlement'
  BY <1>23 DEF AGroupLost
<1>24. ASSUME Given, AExits PROVE Settlement'
  BY <1>24 DEF AExits, ExitCode
<1>25. ASSUME Given, CHello PROVE Settlement'
  BY <1>25 DEF CHello
<1>26. ASSUME Given, CConfig PROVE Settlement'
  BY <1>26 DEF CConfig
<1>27. ASSUME Given, CAdmitsAnchor PROVE Settlement'
  BY <1>27 DEF CAdmitsAnchor
<1>28. ASSUME Given, CPrepared PROVE Settlement'
  BY <1>28 DEF CPrepared
<1>29. ASSUME Given, CReady PROVE Settlement'
  BY <1>29 DEF CReady
<1>30. ASSUME Given, CWorkDone PROVE Settlement'
  BY <1>30 DEF CWorkDone
<1>31. ASSUME Given, CSettle PROVE Settlement'
  BY <1>31 DEF CSettle
<1>32. ASSUME Given, CTerminates PROVE Settlement'
  BY <1>32 DEF CTerminates, GroupEmpty
<1>33. ASSUME Given, CProbes PROVE Settlement'
  BY <1>33 DEF CProbes, GroupEmpty
<1>34. ASSUME Given, CConfirms PROVE Settlement'
  BY <1>34 DEF CConfirms
<1>35. ASSUME Given, CTerminal PROVE Settlement'
  BY <1>35 DEF CTerminal
<1>36. ASSUME Given, CKillsAnchor PROVE Settlement'
  BY <1>36 DEF CKillsAnchor
<1>37. ASSUME Given, CReaps PROVE Settlement'
  BY <1>37 DEF CReaps
<1>38. ASSUME Given, CSeals PROVE Settlement'
  BY <1>38 DEF CSeals, CProducers, SourcesEnded
<1>39. ASSUME Given, CPublishes PROVE Settlement'
  BY <1>39 DEF CPublishes
<1>40. ASSUME Given, CPublishesLate PROVE Settlement'
  BY <1>40 DEF CPublishesLate
<1>41. ASSUME Given, CRelays PROVE Settlement'
  BY <1>41 DEF CRelays
<1>42. ASSUME Given, CReports PROVE Settlement'
  BY <1>42 DEF CReports, NoTarget
<1>43. ASSUME Given, CExits PROVE Settlement'
  BY <1>43 DEF CExits, ExitCode
<1>44. ASSUME Given, OConfig PROVE Settlement'
  BY <1>44 DEF OConfig
<1>45. ASSUME Given, OPrepared PROVE Settlement'
  BY <1>45 DEF OPrepared
<1>46. ASSUME Given, OWaited PROVE Settlement'
  BY <1>46 DEF OWaited
<1>47. ASSUME Given, OSettle PROVE Settlement'
  BY <1>47 DEF OSettle
<1>48. ASSUME Given, ODrained PROVE Settlement'
  BY <1>48 DEF ODrained
<1>49. ASSUME Given, OWaitsC PROVE Settlement'
  BY <1>49 DEF OWaitsC
<1>50. ASSUME Given, OPublishes PROVE Settlement'
  BY <1>50 DEF OPublishes, Complete, Finality, Tag
<1>51. ASSUME Given, NEW t \in Tags, AFrame(t) PROVE Settlement'
  BY <1>51 DEF AFrame, AAdmits
<1>52. ASSUME Given, NEW t \in Tags, AGroup(t) PROVE Settlement'
  BY <1>52 DEF AGroup
<1>53. ASSUME Given, NEW t \in Tags, CFrame(t) PROVE Settlement'
  BY <1>53 DEF CFrame, CAdmits
<1>54. ASSUME Given, NEW t \in Tags, OFrame(t) PROVE Settlement'
  BY <1>54 DEF OFrame, OAdmits, TerminalFits
<1>55. ASSUME Given, NEW p \in Owners, Spawn(p) PROVE Settlement'
  <2>1. CASE p = "O"
    BY <1>55, <2>1 DEF Spawn
  <2>2. CASE p = "C"
    BY <1>55, <2>2 DEF Spawn
  <2>3. CASE p = "A"
    BY <1>55, <2>3 DEF Spawn
  <2> QED BY <2>1, <2>2, <2>3
<1>56. ASSUME Given, NEW p \in Owners, Grant(p) PROVE Settlement'
  <2>1. CASE p = "O"
    BY <1>56, <2>1 DEF Grant
  <2>2. CASE p = "C"
    BY <1>56, <2>2 DEF Grant
  <2>3. CASE p = "A"
    BY <1>56, <2>3 DEF Grant
  <2> QED BY <2>1, <2>2, <2>3
<1>57. ASSUME Given, NEW p \in Owners, Unwind(p) PROVE Settlement'
  BY <1>57 DEF Unwind, HearsParent, ParentLost, Starved, Stopped, Unarmed
<1>58. ASSUME Given, NEW p \in Owners, Stop(p) PROVE Settlement'
  BY <1>58 DEF Stop, HearsParent, Stopped
<1>59. ASSUME Given, NEW p \in Owners, DrainPoisoned(p) PROVE Settlement'
  BY <1>59 DEF DrainPoisoned
<1>60. ASSUME Given, NEW p \in Owners, SpawnLost(p) PROVE Settlement'
  <2>1. CASE p = "O"
    BY <1>60, <2>1 DEF SpawnLost
  <2>2. CASE p = "C"
    BY <1>60, <2>2 DEF SpawnLost
  <2>3. CASE p = "A"
    BY <1>60, <2>3 DEF SpawnLost
  <2> QED BY <2>1, <2>2, <2>3
<1>61. ASSUME Given, NEW p \in Owners, GrantLost(p) PROVE Settlement'
  <2>1. CASE p = "O"
    BY <1>61, <2>1 DEF GrantLost
  <2>2. CASE p = "C"
    BY <1>61, <2>2 DEF GrantLost
  <2>3. CASE p = "A"
    BY <1>61, <2>3 DEF GrantLost
  <2> QED BY <2>1, <2>2, <2>3
<1>62. ASSUME Given, NEW p \in Owners, BodyFault(p) PROVE Settlement'
  BY <1>62 DEF BodyFault
<1>63. ASSUME Given, NEW p \in Owners, CleanupFault(p) PROVE Settlement'
  BY <1>63 DEF CleanupFault
<1>64. ASSUME Given, NEW p \in Owners, Cutoff(p) PROVE Settlement'
  BY <1>64 DEF Cutoff
<1>65. ASSUME Given, NEW p \in Roles, Kill(p) PROVE Settlement'
  BY <1>65 DEF Kill
<1>66. ASSUME Given, Deadline PROVE Settlement'
  BY <1>66 DEF Deadline
<1>67. ASSUME Given, CPublishFails PROVE Settlement'
  BY <1>67 DEF CPublishFails
<1>68. ASSUME Given, Finished PROVE Settlement'
  BY <1>68 DEF Finished, vars
<1>69. ASSUME Given, UNCHANGED vars PROVE Settlement'
  BY <1>69 DEF vars
<1> HIDE DEF WorldType, WireType, StageType, MarkType, RecordType, Family, Records, Statuses, Settlement
<1> QED BY <1>1, <1>2, <1>3, <1>4, <1>5, <1>6, <1>7, <1>8, <1>9, <1>10, <1>11,
     <1>12, <1>13, <1>14, <1>15, <1>16, <1>17, <1>18, <1>19, <1>20, <1>21,
     <1>22, <1>23, <1>24, <1>25, <1>26, <1>27, <1>28, <1>29, <1>30, <1>31,
     <1>32, <1>33, <1>34, <1>35, <1>36, <1>37, <1>38, <1>39, <1>40, <1>41,
     <1>42, <1>43, <1>44, <1>45, <1>46, <1>47, <1>48, <1>49, <1>50, <1>51,
     <1>52, <1>53, <1>54, <1>55, <1>56, <1>57, <1>58, <1>59, <1>60, <1>61,
     <1>62, <1>63, <1>64, <1>65, <1>66, <1>67, <1>68, <1>69
  DEF Next, Worker, Tool, Anchor, Custodian, Outer, Shared, Trouble

LEMMA EndingHolds == Spec => [](IInv /\ Ending)
<1>1. Ending /\ IInv /\ [Next]_vars => Ending'
  BY HeldNext, StatusesNext, DeathsNext, BlameNext, SettlementNext DEF Ending, IInv, Types
<1>2. IInv /\ Ending /\ [Next]_vars => (IInv /\ Ending)'
  BY <1>1, TypesNext, FamilyNext, DispatchNext, RecordsNext, EmptiedNext DEF IInv, Types
<1> QED BY <1>2, IInvInit, EndingInit, PTL DEF Spec

\* While the tool or its descendant runs, the account lock is held, by the caller until
\* a final outcome or by a helper with the loan, unless two of the owners are killed.
THEOREM HoldHolds == Spec => [](kills <= 1 => HoldCovers)
<1>1. IInv /\ Ending => (kills <= 1 => HoldCovers)
  <2> SUFFICES ASSUME IInv, Ending, kills <= 1, ToolRuns PROVE HoldCovers
    BY DEF HoldCovers
  <2>1. CASE Alive("O")
    BY <2>1, FinalIsOver DEF HoldCovers, ToolRuns, Over
  <2>2. CASE ~Alive("O")
    <3>1. status["C"] # "signal"
      BY <2>2, BoundsAssumption DEF Ending, Deaths, IInv, Types, CountType
    <3>2. body["C"] # "none"
      BY DEF ToolRuns, IInv, Family, Dispatch, Early
    <3>3. Alive("C")
      BY <3>1, <3>2 DEF Ending, Held, Spent, ToolRuns
    <3> QED BY <3>3 DEF HoldCovers
  <2> QED BY <2>1, <2>2
<1> QED BY <1>1, EndingHolds, PTL

\* A complete result without a no-target proof is the tool's own: a normal exit is the
\* exit of the tool, and no termination is the owners' kill.
THEOREM ResultHolds == Spec => []ResultIsTrue
<1>1. IInv /\ Ending => ResultIsTrue
  <2> SUFFICES ASSUME IInv, Ending, verdict.complete = "yes", verdict.tag = "none"
               PROVE  /\ verdict.wait = "exit" => image = "target" /\ status["W"] = "exit"
                      /\ verdict.wait = "signal" => status["W"] = "signal"
    BY DEF ResultIsTrue
  <2>1. rcpt["C"] = "OK" /\ rcpt["A"] = "OK" /\ verdict.wait \in {"none", work.wait}
    BY DEF Ending, Settlement
  <2>2. "C" \notin failed /\ "A" \notin failed
    BY <2>1 DEF Ending, Statuses
  <2>3. status["W"] # "killed"
    BY <2>2 DEF Ending, Blame
  <2>4. verdict.wait \in {"none", Receipt(rcpt["W"])}
    BY <2>1 DEF Ending, Settlement, NoWork
  <2>5. verdict.wait \in {"exit", "signal"} =>
          rcpt["W"] = status["W"] /\ verdict.wait = Receipt(status["W"])
    BY <2>4 DEF Ending, Statuses, Receipt
  <2> QED BY <2>3, <2>5 DEF Ending, Statuses, Receipt
<1> QED BY <1>1, EndingHolds, PTL

-----------------------------------------------------------------------------
(* The refinement of OwnedCommand: its Start is W's exec, its Report is    *)
(* O's publication, and its End is whatever step ends the last process.    *)

OtherStep ==
    \/ WExec
    \/ OPublishes
    \/ UNCHANGED <<image, verdict>> /\ (image = "target" /\ ToolRuns' => ToolRuns)

LEMMA OtherSteps == WorldType /\ StageType /\ Family /\ Dispatch /\ [Next]_vars => OtherStep
<1> USE DEF OtherStep, WorldType, StageType, Family, Early, Dispatch,
            ToolRuns, Ends, Fall, KillGroup, InGroup, Unwinds, Attempt, Cause,
            GrantStage, NextStage, SpawnStage, MaySpawn, Born, Grants, Reap,
            Poisons, Next1, Closed, Eof, Writer, YesNo, WaitsIn, Pumps,
            FenceStep, FenceNext, Tried
<1> DEFINE Given == WorldType /\ StageType /\ Family /\ Dispatch
<1>1. ASSUME Given, WHello PROVE OtherStep
  BY <1>1 DEF WHello
<1>2. ASSUME Given, WReady PROVE OtherStep
  BY <1>2 DEF WReady
<1>3. ASSUME Given, WArm PROVE OtherStep
  BY <1>3 DEF WArm
<1>4. ASSUME Given, WExec PROVE OtherStep
  BY <1>4
<1>5. ASSUME Given, WReject PROVE OtherStep
  BY <1>5 DEF WReject
<1>6. ASSUME Given, WEnds(FALSE) PROVE OtherStep
  BY <1>6 DEF WEnds, HearsParent, ParentLost, Starved
<1>7. ASSUME Given, WEnds(TRUE) PROVE OtherStep
  BY <1>7 DEF WEnds, HearsParent, ParentLost, Starved
<1>8. ASSUME Given, ToolForks PROVE OtherStep
  BY <1>8 DEF ToolForks
<1>9. ASSUME Given, ToolEnds PROVE OtherStep
  BY <1>9 DEF ToolEnds
<1>10. ASSUME Given, KidEnds PROVE OtherStep
  BY <1>10 DEF KidEnds
<1>11. ASSUME Given, AHello PROVE OtherStep
  BY <1>11 DEF AHello
<1>12. ASSUME Given, APrepared PROVE OtherStep
  BY <1>12 DEF APrepared
<1>13. ASSUME Given, AMoves PROVE OtherStep
  BY <1>13 DEF AMoves
<1>14. ASSUME Given, AReady PROVE OtherStep
  BY <1>14 DEF AReady
<1>15. ASSUME Given, AReaps PROVE OtherStep
  BY <1>15 DEF AReaps
<1>16. ASSUME Given, AWaited PROVE OtherStep
  BY <1>16 DEF AWaited
<1>17. ASSUME Given, ASettleNoChild PROVE OtherStep
  BY <1>17 DEF ASettleNoChild
<1>18. ASSUME Given, ASettleUnmoved PROVE OtherStep
  BY <1>18 DEF ASettleUnmoved
<1>19. ASSUME Given, ASettleChild PROVE OtherStep
  BY <1>19 DEF ASettleChild
<1>20. ASSUME Given, AWaitsW PROVE OtherStep
  BY <1>20 DEF AWaitsW
<1>21. ASSUME Given, ADrained PROVE OtherStep
  BY <1>21 DEF ADrained
<1>22. ASSUME Given, AWorkDone PROVE OtherStep
  BY <1>22 DEF AWorkDone, AProducers, Receipt
<1>23. ASSUME Given, AGroupLost PROVE OtherStep
  BY <1>23 DEF AGroupLost
<1>24. ASSUME Given, AExits PROVE OtherStep
  BY <1>24 DEF AExits, ExitCode
<1>25. ASSUME Given, CHello PROVE OtherStep
  BY <1>25 DEF CHello
<1>26. ASSUME Given, CConfig PROVE OtherStep
  BY <1>26 DEF CConfig
<1>27. ASSUME Given, CAdmitsAnchor PROVE OtherStep
  BY <1>27 DEF CAdmitsAnchor
<1>28. ASSUME Given, CPrepared PROVE OtherStep
  BY <1>28 DEF CPrepared
<1>29. ASSUME Given, CReady PROVE OtherStep
  BY <1>29 DEF CReady
<1>30. ASSUME Given, CWorkDone PROVE OtherStep
  BY <1>30 DEF CWorkDone
<1>31. ASSUME Given, CSettle PROVE OtherStep
  BY <1>31 DEF CSettle
<1>32. ASSUME Given, CTerminates PROVE OtherStep
  BY <1>32 DEF CTerminates, GroupEmpty
<1>33. ASSUME Given, CProbes PROVE OtherStep
  BY <1>33 DEF CProbes, GroupEmpty
<1>34. ASSUME Given, CConfirms PROVE OtherStep
  BY <1>34 DEF CConfirms
<1>35. ASSUME Given, CTerminal PROVE OtherStep
  BY <1>35 DEF CTerminal
<1>36. ASSUME Given, CKillsAnchor PROVE OtherStep
  BY <1>36 DEF CKillsAnchor
<1>37. ASSUME Given, CReaps PROVE OtherStep
  BY <1>37 DEF CReaps
<1>38. ASSUME Given, CSeals PROVE OtherStep
  BY <1>38 DEF CSeals, CProducers, SourcesEnded
<1>39. ASSUME Given, CPublishes PROVE OtherStep
  BY <1>39 DEF CPublishes
<1>40. ASSUME Given, CPublishesLate PROVE OtherStep
  BY <1>40 DEF CPublishesLate
<1>41. ASSUME Given, CRelays PROVE OtherStep
  BY <1>41 DEF CRelays
<1>42. ASSUME Given, CReports PROVE OtherStep
  BY <1>42 DEF CReports, NoTarget
<1>43. ASSUME Given, CExits PROVE OtherStep
  BY <1>43 DEF CExits, ExitCode
<1>44. ASSUME Given, OConfig PROVE OtherStep
  BY <1>44 DEF OConfig
<1>45. ASSUME Given, OPrepared PROVE OtherStep
  BY <1>45 DEF OPrepared
<1>46. ASSUME Given, OWaited PROVE OtherStep
  BY <1>46 DEF OWaited
<1>47. ASSUME Given, OSettle PROVE OtherStep
  BY <1>47 DEF OSettle
<1>48. ASSUME Given, ODrained PROVE OtherStep
  BY <1>48 DEF ODrained
<1>49. ASSUME Given, OWaitsC PROVE OtherStep
  BY <1>49 DEF OWaitsC
<1>50. ASSUME Given, OPublishes PROVE OtherStep
  BY <1>50
<1>51. ASSUME Given, NEW t \in Tags, AFrame(t) PROVE OtherStep
  BY <1>51 DEF AFrame, AAdmits
<1>52. ASSUME Given, NEW t \in Tags, AGroup(t) PROVE OtherStep
  BY <1>52 DEF AGroup
<1>53. ASSUME Given, NEW t \in Tags, CFrame(t) PROVE OtherStep
  BY <1>53 DEF CFrame, CAdmits
<1>54. ASSUME Given, NEW t \in Tags, OFrame(t) PROVE OtherStep
  BY <1>54 DEF OFrame, OAdmits, TerminalFits
<1>55. ASSUME Given, NEW p \in Owners, Spawn(p) PROVE OtherStep
  <2>1. CASE p = "O"
    BY <1>55, <2>1 DEF Spawn
  <2>2. CASE p = "C"
    BY <1>55, <2>2 DEF Spawn
  <2>3. CASE p = "A"
    BY <1>55, <2>3 DEF Spawn
  <2> QED BY <2>1, <2>2, <2>3
<1>56. ASSUME Given, NEW p \in Owners, Grant(p) PROVE OtherStep
  <2>1. CASE p = "O"
    BY <1>56, <2>1 DEF Grant
  <2>2. CASE p = "C"
    BY <1>56, <2>2 DEF Grant
  <2>3. CASE p = "A"
    BY <1>56, <2>3 DEF Grant
  <2> QED BY <2>1, <2>2, <2>3
<1>57. ASSUME Given, NEW p \in Owners, Unwind(p) PROVE OtherStep
  BY <1>57 DEF Unwind
<1>58. ASSUME Given, NEW p \in Owners, Stop(p) PROVE OtherStep
  BY <1>58 DEF Stop, HearsParent, Stopped
<1>59. ASSUME Given, NEW p \in Owners, DrainPoisoned(p) PROVE OtherStep
  BY <1>59 DEF DrainPoisoned
<1>60. ASSUME Given, NEW p \in Owners, SpawnLost(p) PROVE OtherStep
  <2>1. CASE p = "O"
    BY <1>60, <2>1 DEF SpawnLost
  <2>2. CASE p = "C"
    BY <1>60, <2>2 DEF SpawnLost
  <2>3. CASE p = "A"
    BY <1>60, <2>3 DEF SpawnLost
  <2> QED BY <2>1, <2>2, <2>3
<1>61. ASSUME Given, NEW p \in Owners, GrantLost(p) PROVE OtherStep
  <2>1. CASE p = "O"
    BY <1>61, <2>1 DEF GrantLost
  <2>2. CASE p = "C"
    BY <1>61, <2>2 DEF GrantLost
  <2>3. CASE p = "A"
    BY <1>61, <2>3 DEF GrantLost
  <2> QED BY <2>1, <2>2, <2>3
<1>62. ASSUME Given, NEW p \in Owners, BodyFault(p) PROVE OtherStep
  BY <1>62 DEF BodyFault
<1>63. ASSUME Given, NEW p \in Owners, CleanupFault(p) PROVE OtherStep
  BY <1>63 DEF CleanupFault
<1>64. ASSUME Given, NEW p \in Owners, Cutoff(p) PROVE OtherStep
  BY <1>64 DEF Cutoff
<1>65. ASSUME Given, NEW p \in Roles, Kill(p) PROVE OtherStep
  BY <1>65 DEF Kill
<1>66. ASSUME Given, Deadline PROVE OtherStep
  BY <1>66 DEF Deadline
<1>67. ASSUME Given, CPublishFails PROVE OtherStep
  BY <1>67 DEF CPublishFails
<1>68. ASSUME Given, Finished PROVE OtherStep
  BY <1>68 DEF Finished, vars
<1>69. ASSUME Given, UNCHANGED vars PROVE OtherStep
  BY <1>69 DEF vars
<1> HIDE DEF OtherStep, WorldType, StageType, Family, Dispatch
<1> QED BY <1>1, <1>2, <1>3, <1>4, <1>5, <1>6, <1>7, <1>8, <1>9, <1>10, <1>11,
     <1>12, <1>13, <1>14, <1>15, <1>16, <1>17, <1>18, <1>19, <1>20, <1>21,
     <1>22, <1>23, <1>24, <1>25, <1>26, <1>27, <1>28, <1>29, <1>30, <1>31,
     <1>32, <1>33, <1>34, <1>35, <1>36, <1>37, <1>38, <1>39, <1>40, <1>41,
     <1>42, <1>43, <1>44, <1>45, <1>46, <1>47, <1>48, <1>49, <1>50, <1>51,
     <1>52, <1>53, <1>54, <1>55, <1>56, <1>57, <1>58, <1>59, <1>60, <1>61,
     <1>62, <1>63, <1>64, <1>65, <1>66, <1>67, <1>68, <1>69
  DEF Next, Worker, Tool, Anchor, Custodian, Outer, Shared, Trouble

Doing == IF image = "helper" THEN "idle" ELSE IF ToolRuns THEN "running" ELSE "ended"
Said == IF verdict = NoVerdict THEN "none"
        ELSE IF verdict.final = "no" THEN "unknown"
        ELSE IF verdict.tag # "none" THEN "no-target" ELSE "contained"

\* W executes the tool only while no report has ruled it out.
LEMMA ExecStarts ==
  ASSUME IInv, IInv', WExec
  PROVE  Doing = "idle" /\ Doing' = "running" /\ Said \in {"none", "unknown"} /\ Said' = Said
<1>1. proc["W"] = "alive" /\ image' = "target" /\ UNCHANGED <<proc, kid, verdict>>
  BY DEF WExec
<1>2. image = "helper"
  BY DEF WExec, IInv, Types, WorldType, Dispatch
<1>3. verdict.final # "yes"
  BY <1>1, FinalIsOver DEF Over
<1>4. verdict # NoVerdict => verdict.final = "no"
  BY <1>3 DEF IInv, Types, RecordType, Answers, Records
<1> QED BY <1>1, <1>2, <1>4 DEF Doing, Said, ToolRuns

\* O publishes once, and what it says is true of the tool.
LEMMA PublicationReports ==
  ASSUME IInv, IInv', OPublishes
  PROVE  /\ Doing' = Doing /\ Said = "none" /\ Said' \in {"no-target", "contained", "unknown"}
         /\ Said' = "no-target" => Doing = "idle"
         /\ Said' = "contained" => Doing # "running"
<1>a. NoTargetIsTrue'
  BY NoTargetFollows, PTL
<1>b. ContainedIsTrue'
  BY ContainedFollows, PTL
<1>1. verdict = NoVerdict /\ UNCHANGED <<image, proc, kid, term>>
  BY DEF OPublishes, IInv, Records
<1>2. verdict' # NoVerdict
  BY DEF OPublishes, YesNo, NoVerdict
<1>3. verdict'.tag # "none" => image = "helper"
  BY <1>1, <1>2, <1>a DEF NoTargetIsTrue, IInv, Types, WorldType
<1>4. verdict'.final = "yes" => ~ToolRuns
  BY <1>1, <1>b DEF ContainedIsTrue, Over, ToolRuns
<1>5. verdict'.final \in {"yes", "no"}
  BY DEF OPublishes, YesNo
<1> QED BY <1>1, <1>2, <1>3, <1>4, <1>5 DEF Doing, Said, ToolRuns

\* A command publishes one report, claims no target only for a tool that was
\* never started, claims containment only when nothing of it runs, and no
\* later step overtakes either claim.
THEOREM PromiseKept == Spec => KeepsPromise
<1>1. Init => Promise!Init
  BY DEF Init, Promise!Init
<1>2. IInv /\ IInv' /\ [Next]_vars => [Promise!Next]_Promise!vars
  <2> SUFFICES ASSUME IInv, IInv', [Next]_vars PROVE [Promise!Next]_Promise!vars
    OBVIOUS
  <2>1. OtherStep
    BY OtherSteps DEF IInv, Types
  <2>2. CASE WExec
    BY <2>2, ExecStarts DEF Promise!Next, Promise!Start, Promise!vars, Doing, Said
  <2>3. CASE OPublishes
    BY <2>3, PublicationReports DEF Promise!Next, Promise!Report, Promise!vars, Doing, Said
  <2>4. CASE UNCHANGED <<image, verdict>> /\ (image = "target" /\ ToolRuns' => ToolRuns)
    BY <2>4 DEF IInv, Types, WorldType, Promise!Next, Promise!End, Promise!vars, Doing, Said
  <2> QED BY <2>1, <2>2, <2>3, <2>4 DEF OtherStep
<1> QED BY <1>1, <1>2, Invariance, PTL DEF Spec, KeepsPromise, Promise!Spec
=============================================================================
