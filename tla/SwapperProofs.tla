----------------------------- MODULE SwapperProofs -----------------------------
(***************************************************************************)
(* The session keeps its promises, alone and behind the pages, through     *)
(* swaps and reverts as well; the cards on the page and the open dialog    *)
(* are right in whatever order the page's callbacks came; the pages show   *)
(* every named skin; and a class read from a package is walked as the      *)
(* mappings file declares it: for every registry, catalogue and mappings   *)
(* file.                                                                   *)
(***************************************************************************)
EXTENDS Swapper, NaturalFacts, FiniteSetTheorems, WellFoundedInduction

-----------------------------------------------------------------------------
(* The session alone.                                                        *)

Saving == {"Save", "SaveWrite"}
\* Nothing more of the dependencies is to come.
Settled == stage \in Ready \cup {"Convert"} \/ (stage \in Saving /\ after # "Dependencies")

\* What is recorded of a dependency, in memory or on disk, was listed once; if it is
\* what is listed now, the file is that one.
Honest(record) ==
  \A d \in Deps :
    /\ record.Dependencies[d] <= listed[d]
    /\ (d \notin excused /\ record.Dependencies[d] = listed[d]) => files[d] = listed[d]

RecordsInv == Honest(FConfig) /\ Honest(saved)

\* The loop has recorded what it has passed.
LoopInv ==
  /\ stage \notin {"Down", "Refused"} =>
       \A d \in Deps \ todo : FConfig.Dependencies[d] = listed[d]
  /\ Settled => todo = {}

\* Only a first start, or one after a torn save, has nothing on disk while it looks
\* at the list, and then it has not passed an entry yet.
DiskInv ==
  /\ ConfigFile # "whole" => saved = Blank
  /\ stage = "Dependencies" =>
       /\ saved = FConfig
       /\ ConfigFile = "whole" \/ (FConfig = Blank /\ todo = Deps)
  /\ stage \in Ready \cup {"Convert"} => ConfigFile = "whole" /\ saved = FConfig

KeyInv ==
  /\ RuntimeKey # NoKey =>
       owner[RuntimeKey] = "mine" /\ versionData \in {"current", "failed"}
  /\ stage \in {"Home", "Convert"} \/ (stage \in Saving /\ after # "Dependencies")
       => RuntimeKey # NoKey
  /\ stage = "Bind" => key \in Keys /\ versionData \in {"current", "failed"}

\* The inductive invariant.
SessionInv == SessionTypeOK /\ RecordsInv /\ LoopInv /\ DiskInv /\ KeyInv

USE DEF process, config, externals

LEMMA VersionsNat == Versions \subseteq Nat /\ NoVersion \notin Versions /\ 1 \in Versions
                     /\ Missing \notin Versions /\ Bad \notin Versions
  BY SessionAssumption DEF SessionAssumption, Versions, NoVersion, Missing, Bad

LEMMA BlankType == Blank \in Configs
  BY DEF Blank, Configs

LEMMA BlankHonest == SessionTypeOK => Honest(Blank)
  <1> SUFFICES ASSUME SessionTypeOK, NEW d \in Deps
      PROVE Blank.Dependencies[d] <= listed[d] /\ Blank.Dependencies[d] # listed[d]
    BY DEF Honest
  <1>1. listed[d] \in Nat /\ listed[d] # 0
    BY VersionsNat DEF SessionTypeOK, NoVersion
  <1> QED BY <1>1 DEF Blank, NoVersion

\* What a whole file gives a memory that knows nothing it does not say.
LEMMA MergedSaved ==
  ASSUME SessionTypeOK, NEW memory, memory = saved \/ memory = Blank
  PROVE  Merged(memory) = saved
  <1>1. saved \in [Key : Keys \cup {NoKey}, Dependencies : [Deps -> Versions \cup {NoVersion}],
                   bHasSwappedSkin : BOOLEAN]
    BY DEF SessionTypeOK, Configs
  <1>2. [d \in Deps |-> IF saved.Dependencies[d] # NoVersion THEN saved.Dependencies[d]
                        ELSE memory.Dependencies[d]] = saved.Dependencies
    BY <1>1 DEF Blank
  <1> QED BY <1>1, <1>2 DEF Merged

LEMMA InitInv == SessionInit => SessionInv
  <1> SUFFICES ASSUME SessionInit PROVE SessionInv
    OBVIOUS
  <1>1. SessionTypeOK
    <2>1. listed \in [Deps -> Versions] /\ files \in [Deps -> Versions \cup {Missing, Bad}]
      BY VersionsNat DEF SessionInit
    <2>2. saved \in Configs /\ FConfig \in Configs
      BY BlankType DEF SessionInit
    <2>3. current \in Deps /\ launches \in 0 .. MaxLaunches
      BY SessionAssumption DEF SessionAssumption, SessionInit
    <2> QED BY <2>1, <2>2, <2>3 DEF SessionInit, SessionTypeOK
  <1>2. RecordsInv
    BY <1>1, BlankHonest DEF RecordsInv, SessionInit
  <1> QED BY <1>1, <1>2 DEF SessionInv, SessionInit, LoopInv, DiskInv, KeyInv, Settled, Saving, Ready

LEMMA ListedType ==
  ASSUME SessionTypeOK, NEW d \in Deps
  PROVE  listed[d] \in Versions /\ listed[d] \in Nat /\ listed[d] # NoVersion /\ listed[d] # Missing
  BY VersionsNat DEF SessionTypeOK

\* What the three assignments to FConfig do.
LEMMA Recorded ==
  ASSUME NEW c \in Configs, NEW d \in Deps, NEW v \in Versions
  PROVE  LET new == [c EXCEPT !.Dependencies[d] = v]
         IN  /\ new \in Configs
             /\ new.Dependencies = [c.Dependencies EXCEPT ![d] = v]
             /\ new.Dependencies[d] = v
             /\ \A e \in Deps \ {d} : new.Dependencies[e] = c.Dependencies[e]
  BY DEF Configs

LEMMA Keyed ==
  ASSUME NEW c \in Configs, NEW k \in Keys
  PROVE  [c EXCEPT !.Key = k] \in Configs /\ [c EXCEPT !.Key = k].Dependencies = c.Dependencies
  BY DEF Configs

LEMMA Flagged ==
  ASSUME NEW c \in Configs, NEW b \in BOOLEAN
  PROVE  /\ [c EXCEPT !.bHasSwappedSkin = b] \in Configs
         /\ [c EXCEPT !.bHasSwappedSkin = b].Dependencies = c.Dependencies
  BY DEF Configs

-----------------------------------------------------------------------------
(* One lemma per kind of step.                                               *)

LEMMA DieInv == SessionInv /\ Die => SessionInv'
  <1> SUFFICES ASSUME SessionInv, Die PROVE SessionInv'
    OBVIOUS
  <1>1. SessionTypeOK'
    BY SessionAssumption, BlankType
    DEF SessionAssumption, SessionInv, Die, Forget, SessionTypeOK, Starting, Ready
  <1>2. RecordsInv'
    BY <1>1, BlankHonest DEF SessionInv, RecordsInv, Honest, Die, Forget, Blank
  <1> QED BY <1>1, <1>2 DEF SessionInv, Die, Forget, LoopInv, DiskInv, KeyInv, Settled, Saving, Ready

LEMMA SaveOpenInv == SessionInv /\ SaveOpen => SessionInv'
  <1> SUFFICES ASSUME SessionInv, SaveOpen PROVE SessionInv'
    OBVIOUS
  <1>1. SessionTypeOK'
    BY BlankType DEF SessionInv, SessionTypeOK, Starting, Ready, SaveOpen
  <1>2. RecordsInv'
    BY BlankHonest DEF SessionInv, RecordsInv, Honest, SaveOpen
  <1>3. LoopInv'
    BY DEF SessionInv, SessionTypeOK, LoopInv, Settled, Saving, Ready, SaveOpen
  <1>4. DiskInv'
    BY DEF SessionInv, SessionTypeOK, DiskInv, Ready, SaveOpen
  <1>5. KeyInv'
    BY DEF SessionInv, SessionTypeOK, KeyInv, Saving, SaveOpen
  <1> QED BY <1>1, <1>2, <1>3, <1>4, <1>5 DEF SessionInv

LEMMA SaveWriteInv == SessionInv /\ SaveWrite => SessionInv'
  <1> SUFFICES ASSUME SessionInv, SaveWrite PROVE SessionInv'
    OBVIOUS
  <1>1. SessionTypeOK'
    BY DEF SessionInv, SessionTypeOK, Starting, Ready, SaveWrite
  <1>2. RecordsInv'
    BY DEF SessionInv, RecordsInv, Honest, SaveWrite
  <1>3. LoopInv'
    BY DEF SessionInv, SessionTypeOK, LoopInv, Settled, Saving, Ready, SaveWrite
  <1>4. DiskInv'
    BY DEF SessionInv, SessionTypeOK, DiskInv, Ready, SaveWrite
  <1>5. KeyInv'
    BY DEF SessionInv, SessionTypeOK, KeyInv, Saving, SaveWrite
  <1> QED BY <1>1, <1>2, <1>3, <1>4, <1>5 DEF SessionInv

LEMMA LaunchRefusedInv == SessionInv /\ LaunchRefused => SessionInv'
  <1> SUFFICES ASSUME SessionInv, LaunchRefused PROVE SessionInv'
    OBVIOUS
  <1>1. SessionTypeOK'
    BY SessionAssumption
    DEF SessionAssumption, SessionInv, SessionTypeOK, Starting, Ready, LaunchRefused
  <1>2. RecordsInv'
    BY DEF SessionInv, RecordsInv, Honest, LaunchRefused
  <1>3. LoopInv'
    BY DEF SessionInv, SessionTypeOK, LoopInv, Settled, Saving, Ready, LaunchRefused
  <1>4. DiskInv'
    BY DEF SessionInv, SessionTypeOK, DiskInv, Ready, LaunchRefused
  <1>5. KeyInv'
    BY DEF SessionInv, SessionTypeOK, KeyInv, Saving, LaunchRefused
  <1> QED BY <1>1, <1>2, <1>3, <1>4, <1>5 DEF SessionInv

LEMMA LaunchInv == SessionInv /\ Launch => SessionInv'
  <1> SUFFICES ASSUME SessionInv, Launch PROVE SessionInv'
    OBVIOUS
  <1>1. PICK now \in [Deps -> Versions] : (\A d \in Deps : now[d] >= listed[d]) /\ listed' = now
    BY DEF Launch
  <1>2. /\ ConfigFile = "whole" => FConfig' = saved /\ saved' = saved /\ ConfigFile' = "whole"
        /\ ConfigFile # "whole" => FConfig' = Blank /\ saved' = Blank /\ ConfigFile' = "absent"
    BY MergedSaved DEF Launch, Load, SessionInv, SessionTypeOK, DiskInv
  <1>3. FConfig' = saved' /\ FConfig' \in {saved, Blank}
    BY <1>2
  <1>4. SessionTypeOK'
    <2>1. FConfig' \in Configs /\ saved' \in Configs /\ ConfigFile' \in {"absent", "torn", "whole"}
      BY <1>2, BlankType DEF SessionInv, SessionTypeOK
    <2>2. launches' \in 0 .. MaxLaunches
      BY SessionAssumption DEF SessionAssumption, SessionInv, SessionTypeOK, Launch
    <2>3. current' \in Deps /\ bLoaded' \in BOOLEAN
      BY SessionAssumption DEF SessionAssumption, SessionInv, SessionTypeOK, Launch, Load, Forget
    <2> QED BY <1>1, <2>1, <2>2, <2>3
            DEF SessionInv, SessionTypeOK, Launch, Forget, Starting
  <1>5. RecordsInv'
    <2>1. Honest(saved) /\ Honest(Blank)
      BY BlankHonest DEF SessionInv, RecordsInv
    <2>2. ASSUME NEW record \in Configs, Honest(record), NEW d \in Deps
          PROVE  /\ record.Dependencies[d] <= listed'[d]
                 /\ (d \notin excused /\ record.Dependencies[d] = listed'[d]) => files[d] = listed'[d]
      <3>1. record.Dependencies[d] \in Nat
        <4>1. record.Dependencies \in [Deps -> Versions \cup {NoVersion}]
          BY DEF Configs
        <4>2. record.Dependencies[d] \in Versions \/ record.Dependencies[d] = 0
          BY <4>1 DEF NoVersion
        <4>3. Versions \subseteq Nat /\ 0 \in Nat
          BY VersionsNat
        <4> QED BY <4>2, <4>3, Zenon
      <3>2. listed[d] \in Nat /\ listed'[d] \in Nat /\ listed'[d] >= listed[d]
        BY <1>1, VersionsNat DEF SessionInv, SessionTypeOK
      <3> QED BY <3>1, <3>2, <2>2 DEF Honest
    <2>3. files' = files /\ excused' = excused
      BY DEF Launch
    <2>4. saved \in Configs /\ Blank \in Configs
      BY BlankType DEF SessionInv, SessionTypeOK
    <2> QED BY <1>3, <2>1, <2>2, <2>3, <2>4 DEF RecordsInv, Honest
  <1>6. LoopInv'
    BY DEF Launch, LoopInv, Settled, Saving, Ready
  <1>7. DiskInv'
    BY <1>2, <1>3 DEF Launch, DiskInv, Ready
  <1>8. KeyInv'
    BY DEF Launch, Forget, KeyInv, Saving
  <1> QED BY <1>4, <1>5, <1>6, <1>7, <1>8 DEF SessionInv

LEMMA RemoveFileInv == ASSUME SessionInv, NEW d \in Deps, RemoveFile(d) PROVE SessionInv'
  <1>1. SessionTypeOK'
    BY DEF SessionInv, SessionTypeOK, Starting, Ready, RemoveFile
  <1>2. RecordsInv'
    BY DEF SessionInv, RecordsInv, Honest, RemoveFile
  <1>3. LoopInv'
    BY DEF SessionInv, SessionTypeOK, LoopInv, Settled, Saving, Ready, RemoveFile
  <1>4. DiskInv'
    BY DEF SessionInv, SessionTypeOK, DiskInv, Ready, RemoveFile
  <1>5. KeyInv'
    BY DEF SessionInv, SessionTypeOK, KeyInv, Saving, RemoveFile
  <1> QED BY <1>1, <1>2, <1>3, <1>4, <1>5 DEF SessionInv

LEMMA OtherMachineBindsInv == ASSUME SessionInv, NEW k \in Keys, OtherMachineBinds(k) PROVE SessionInv'
  <1>1. SessionTypeOK'
    BY DEF SessionInv, SessionTypeOK, Starting, Ready, OtherMachineBinds
  <1>2. RecordsInv'
    BY DEF SessionInv, RecordsInv, Honest, OtherMachineBinds
  <1>3. LoopInv'
    BY DEF SessionInv, SessionTypeOK, LoopInv, Settled, Saving, Ready, OtherMachineBinds
  <1>4. DiskInv'
    BY DEF SessionInv, SessionTypeOK, DiskInv, Ready, OtherMachineBinds
  <1>5. KeyInv'
    BY DEF SessionInv, SessionTypeOK, KeyInv, Saving, OtherMachineBinds
  <1> QED BY <1>1, <1>2, <1>3, <1>4, <1>5 DEF SessionInv

LEMMA KeepInv == ASSUME SessionInv, NEW d \in Deps, Keep(d) PROVE SessionInv'
  <1>1. SessionTypeOK'
    BY DEF SessionInv, SessionTypeOK, Starting, Ready, Keep
  <1>2. RecordsInv'
    BY DEF SessionInv, RecordsInv, Honest, Keep
  <1>3. LoopInv'
    BY DEF SessionInv, SessionTypeOK, LoopInv, Settled, Saving, Ready, Keep
  <1>4. DiskInv'
    <2>1. FConfig # Blank
      BY ListedType DEF SessionInv, Keep, Blank
    <2> QED BY <2>1 DEF SessionInv, SessionTypeOK, DiskInv, Ready, Keep
  <1>5. KeyInv'
    BY DEF SessionInv, SessionTypeOK, KeyInv, Saving, Keep
  <1> QED BY <1>1, <1>2, <1>3, <1>4, <1>5 DEF SessionInv

LEMMA OpenDownloadInv == ASSUME SessionInv, NEW d \in Deps, OpenDownload(d) PROVE SessionInv'
  <1>1. SessionTypeOK'
    BY DEF SessionInv, SessionTypeOK, Starting, Ready, OpenDownload, Outdated
  <1>2. RecordsInv'
    <2>1. files' = [files EXCEPT ![d] = Bad] /\ UNCHANGED <<FConfig, saved, listed, excused>>
      BY DEF OpenDownload
    <2>2. FConfig = saved
      BY DEF SessionInv, DiskInv, OpenDownload
    <2>3. d \in excused \/ FConfig.Dependencies[d] # listed[d]
      BY ListedType DEF SessionInv, RecordsInv, Honest, OpenDownload, Outdated
    <2>4. \A e \in Deps \ {d} : files'[e] = files[e]
      BY <2>1 DEF SessionInv, SessionTypeOK
    <2> QED BY <2>1, <2>2, <2>3, <2>4 DEF SessionInv, RecordsInv, Honest
  <1>3. LoopInv'
    BY DEF SessionInv, SessionTypeOK, LoopInv, Settled, Saving, Ready, OpenDownload, Outdated
  <1>4. DiskInv'
    BY DEF SessionInv, SessionTypeOK, DiskInv, Ready, OpenDownload, Outdated
  <1>5. KeyInv'
    BY DEF SessionInv, SessionTypeOK, KeyInv, Saving, OpenDownload, Outdated
  <1> QED BY <1>1, <1>2, <1>3, <1>4, <1>5 DEF SessionInv

\* A dependency is recorded: its file is the listed one, or it is excused.
LEMMA RecordedInv ==
  ASSUME SessionInv, NEW d \in todo, Record(d), current' \in Deps,
         stage \in {"Dependencies", "Download"},
         \/ files' = [files EXCEPT ![d] = listed[d]] /\ excused' = excused \ {d}
         \/ files' = files /\ excused' = excused \cup {d}
  PROVE  SessionInv'
  <1>d. d \in Deps /\ listed[d] \in Versions /\ listed[d] \in Nat
    BY ListedType DEF SessionInv, SessionTypeOK
  <1>c. /\ FConfig' \in Configs
        /\ FConfig'.Dependencies[d] = listed[d]
        /\ \A e \in Deps \ {d} : FConfig'.Dependencies[e] = FConfig.Dependencies[e]
    BY <1>d, Recorded DEF Record, SessionInv, SessionTypeOK
  <1>f. /\ \A e \in Deps \ {d} : files'[e] = files[e] /\ (e \in excused' <=> e \in excused)
        /\ d \in excused' \/ files'[d] = listed[d]
    BY <1>d DEF SessionInv, SessionTypeOK
  <1>u. /\ stage' = "Save" /\ after' = "Dependencies" /\ todo' = todo \ {d}
        /\ UNCHANGED <<saved, ConfigFile, listed, versionData, RuntimeKey, owner>>
    BY DEF Record, Save
  <1>1. SessionTypeOK'
    <2>1. files' \in [Deps -> Versions \cup {Missing, Bad}] /\ excused' \in SUBSET Deps
      BY <1>d DEF SessionInv, SessionTypeOK
    <2> QED BY <1>c, <1>u, <2>1 DEF SessionInv, SessionTypeOK, Record, Starting
  <1>2. RecordsInv'
    <2>1. Honest(FConfig)'
      BY <1>c, <1>d, <1>f, <1>u DEF SessionInv, RecordsInv, Honest
    <2>2. Honest(saved)'
      BY <1>f, <1>u DEF SessionInv, RecordsInv, Honest
    <2> QED BY <2>1, <2>2 DEF RecordsInv
  <1>3. LoopInv'
    BY <1>c, <1>u DEF SessionInv, LoopInv, Settled, Saving, Ready
  <1>4. DiskInv'
    BY <1>u DEF SessionInv, DiskInv, Ready
  <1>5. KeyInv'
    BY <1>u DEF SessionInv, KeyInv, Saving
  <1> QED BY <1>1, <1>2, <1>3, <1>4, <1>5 DEF SessionInv

LEMMA DownloadStepInv ==
  ASSUME SessionInv, Downloaded \/ DownloadFails \/ \E d \in Deps : NoDownload(d)
  PROVE  SessionInv'
  <1>1. CASE Downloaded
    BY <1>1, RecordedInv DEF SessionInv, SessionTypeOK, Downloaded
  <1>2. CASE DownloadFails
    BY <1>2, RecordedInv DEF SessionInv, SessionTypeOK, DownloadFails
  <1>3. CASE \E d \in Deps : NoDownload(d)
    BY <1>3, RecordedInv DEF SessionInv, SessionTypeOK, NoDownload
  <1> QED BY <1>1, <1>2, <1>3

LEMMA LoadDLLInv == SessionInv /\ LoadDLL => SessionInv'
  <1> SUFFICES ASSUME SessionInv, LoadDLL PROVE SessionInv'
    OBVIOUS
  <1>1. SessionTypeOK'
    BY DEF SessionInv, SessionTypeOK, Starting, Ready, LoadDLL
  <1>2. RecordsInv'
    BY DEF SessionInv, RecordsInv, Honest, LoadDLL
  <1>3. LoopInv'
    BY DEF SessionInv, SessionTypeOK, LoopInv, Settled, Saving, Ready, LoadDLL
  <1>4. DiskInv'
    BY DEF SessionInv, SessionTypeOK, DiskInv, Ready, LoadDLL
  <1>5. KeyInv'
    BY DEF SessionInv, SessionTypeOK, KeyInv, Saving, LoadDLL
  <1> QED BY <1>1, <1>2, <1>3, <1>4, <1>5 DEF SessionInv

LEMMA GotoInv == ASSUME SessionInv, NEW from, NEW to,
         <<from, to>> \in {<<"Fetch", "Refused">>, <<"Fetch", "Mount">>, <<"Fetch", "Mappings">>,
                          <<"Mappings", "Mount">>},
         mappingsFile' \in {"none", "cut", "whole"}, Goto(from, to) PROVE SessionInv'
  <1>1. SessionTypeOK'
    BY DEF SessionInv, SessionTypeOK, Starting, Ready, Goto
  <1>2. RecordsInv'
    BY DEF SessionInv, RecordsInv, Honest, Goto
  <1>3. LoopInv'
    BY DEF SessionInv, SessionTypeOK, LoopInv, Settled, Saving, Ready, Goto
  <1>4. DiskInv'
    BY DEF SessionInv, SessionTypeOK, DiskInv, Ready, Goto
  <1>5. KeyInv'
    BY DEF SessionInv, SessionTypeOK, KeyInv, Saving, Goto
  <1> QED BY <1>1, <1>2, <1>3, <1>4, <1>5 DEF SessionInv

LEMMA MappingsInv ==
  ASSUME SessionInv,
         FetchFails \/ MappingsThere \/ OpenMappings \/ NoMappings \/ CloseMappings
  PROVE  SessionInv'
  <1>1. mappingsFile' \in {"none", "cut", "whole"}
    BY DEF SessionInv, SessionTypeOK, FetchFails, MappingsThere, OpenMappings, NoMappings,
           CloseMappings
  <1> QED BY <1>1, GotoInv
          DEF FetchFails, MappingsThere, OpenMappings, NoMappings, CloseMappings

LEMMA OpenKeyPageInv == SessionInv /\ OpenKeyPage => SessionInv'
  <1> SUFFICES ASSUME SessionInv, OpenKeyPage PROVE SessionInv'
    OBVIOUS
  <1>0. ConfigFile = "whole" /\ saved = FConfig
    BY DEF SessionInv, DiskInv, OpenKeyPage, Ready
  <1>1. UNCHANGED <<FConfig, saved, ConfigFile>> /\ bLoaded' \in BOOLEAN
    BY <1>0, MergedSaved DEF SessionInv, OpenKeyPage, Load
  <1>2. SessionTypeOK'
    BY <1>1 DEF SessionInv, SessionTypeOK, OpenKeyPage, Ready
  <1>3. RecordsInv'
    BY <1>1 DEF SessionInv, RecordsInv, Honest, OpenKeyPage
  <1>4. LoopInv'
    BY <1>1 DEF SessionInv, LoopInv, Settled, OpenKeyPage, Ready, Saving
  <1>5. DiskInv'
    BY <1>0, <1>1 DEF SessionInv, DiskInv, OpenKeyPage
  <1>6. KeyInv'
    BY DEF SessionInv, KeyInv, OpenKeyPage, Saving
  <1> QED BY <1>2, <1>3, <1>4, <1>5, <1>6 DEF SessionInv

LEMMA KeyRefusedInv == SessionInv /\ KeyRefused => SessionInv'
  <1> SUFFICES ASSUME SessionInv, KeyRefused PROVE SessionInv'
    OBVIOUS
  <1>1. SessionTypeOK'
    BY DEF SessionInv, SessionTypeOK, Starting, Ready, KeyRefused, AskVersion
  <1>2. RecordsInv'
    BY DEF SessionInv, RecordsInv, Honest, KeyRefused, AskVersion
  <1>3. LoopInv'
    BY DEF SessionInv, SessionTypeOK, LoopInv, Settled, Saving, Ready, KeyRefused, AskVersion
  <1>4. DiskInv'
    BY DEF SessionInv, SessionTypeOK, DiskInv, Ready, KeyRefused, AskVersion
  <1>5. KeyInv'
    BY DEF SessionInv, SessionTypeOK, KeyInv, Saving, KeyRefused, AskVersion
  <1> QED BY <1>1, <1>2, <1>3, <1>4, <1>5 DEF SessionInv

\* A key that is this machine's is taken.
LEMMA AcceptInv ==
  ASSUME SessionInv, NEW k \in Keys, Accept(k), stage \in {"Key", "Bind"},
         owner' \in [Keys -> {"free", "mine", "other"}], owner'[k] = "mine",
         versionData' \in {"current", "failed"}, key' \in Keys \cup {NoKey},
         UNCHANGED <<bLoaded, todo, current, OodleLoaded, config, externals, launches>>
  PROVE  SessionInv'
  <1>c. FConfig' \in Configs /\ FConfig'.Dependencies = FConfig.Dependencies
    BY Keyed DEF Accept, SessionInv, SessionTypeOK
  <1>u. stage' = "Save" /\ after' = "Home" /\ RuntimeKey' = k
    BY DEF Accept, Save
  <1>k. k # NoKey
    BY SessionAssumption DEF SessionAssumption
  <1>1. SessionTypeOK'
    BY <1>c, <1>u DEF SessionInv, SessionTypeOK, Starting
  <1>2. RecordsInv'
    BY <1>c DEF SessionInv, RecordsInv, Honest
  <1>3. LoopInv'
    BY <1>c, <1>u DEF SessionInv, LoopInv, Settled, Ready
  <1>4. DiskInv'
    BY <1>u DEF SessionInv, DiskInv, Ready
  <1>5. KeyInv'
    BY <1>k, <1>u DEF KeyInv
  <1> QED BY <1>1, <1>2, <1>3, <1>4, <1>5 DEF SessionInv

LEMMA KeyFoundInv == ASSUME SessionInv, NEW k \in Keys, KeyFound(k) PROVE SessionInv'
  <1>v. versionData' \in {"current", "failed"}
    BY DEF SessionInv, SessionTypeOK, KeyFound, AskVersion
  <1>1. CASE owner[k] = "mine" /\ Accept(k) /\ UNCHANGED key
    BY <1>1, <1>v, AcceptInv DEF SessionInv, SessionTypeOK, KeyFound
  <1>2. CASE stage' = "Bind" /\ key' = k /\ UNCHANGED <<FConfig, RuntimeKey, after>>
    <2>u. UNCHANGED <<FConfig, RuntimeKey, bLoaded, todo, current, OodleLoaded, config, externals,
                      owner, launches, after>>
      BY <1>2 DEF KeyFound
    <2>1. SessionTypeOK'
      BY <1>2, <1>v, <2>u DEF SessionInv, SessionTypeOK, Ready
    <2>2. RecordsInv'
      BY <2>u DEF SessionInv, RecordsInv, Honest
    <2>3. LoopInv'
      BY <1>2, <2>u DEF SessionInv, LoopInv, Settled, Ready, KeyFound, Saving
    <2>4. DiskInv'
      BY <1>2, <2>u DEF SessionInv, DiskInv, Ready, KeyFound
    <2>5. KeyInv'
      BY <1>2, <1>v, <2>u DEF SessionInv, KeyInv, Saving
    <2> QED BY <2>1, <2>2, <2>3, <2>4, <2>5 DEF SessionInv
  <1> QED BY <1>1, <1>2 DEF KeyFound

LEMMA SetHWIDInv == SessionInv /\ SetHWID => SessionInv'
  <1> SUFFICES ASSUME SessionInv, SetHWID PROVE SessionInv'
    OBVIOUS
  <1>1. key \in Keys /\ versionData \in {"current", "failed"}
    BY DEF SessionInv, KeyInv, SetHWID
  <1>2. owner' \in [Keys -> {"free", "mine", "other"}] /\ owner'[key] = "mine"
    BY <1>1 DEF SessionInv, SessionTypeOK, SetHWID
  <1> QED BY <1>1, <1>2, AcceptInv DEF SetHWID

LEMMA SetHWIDFailsInv == SessionInv /\ SetHWIDFails => SessionInv'
  <1> SUFFICES ASSUME SessionInv, SetHWIDFails PROVE SessionInv'
    OBVIOUS
  <1>1. SessionTypeOK'
    BY DEF SessionInv, SessionTypeOK, Starting, Ready, SetHWIDFails
  <1>2. RecordsInv'
    BY DEF SessionInv, RecordsInv, Honest, SetHWIDFails
  <1>3. LoopInv'
    BY DEF SessionInv, SessionTypeOK, LoopInv, Settled, Saving, Ready, SetHWIDFails
  <1>4. DiskInv'
    BY DEF SessionInv, SessionTypeOK, DiskInv, Ready, SetHWIDFails
  <1>5. KeyInv'
    BY DEF SessionInv, SessionTypeOK, KeyInv, Saving, SetHWIDFails
  <1> QED BY <1>1, <1>2, <1>3, <1>4, <1>5 DEF SessionInv

LEMMA StutterInv == SessionInv /\ UNCHANGED sessionVars => SessionInv'
  BY DEF sessionVars, SessionInv, SessionTypeOK, RecordsInv, Honest, LoopInv, DiskInv, KeyInv, Settled

LEMMA StepInv ==
  ASSUME SessionInv, StartStep \/ SaveStep \/ KeyStep \/ Outside
  PROVE  SessionInv'
  <1>1. CASE StartStep
    BY <1>1, KeepInv, OpenDownloadInv, DownloadStepInv, LoadDLLInv, DieInv, MappingsInv
    DEF StartStep, LoadDLLExits, DecompressThrows
  <1>2. CASE SaveStep
    BY <1>2, SaveOpenInv, SaveWriteInv DEF SaveStep
  <1>3. CASE KeyStep
    BY <1>3, KeyRefusedInv, KeyFoundInv, SetHWIDInv, SetHWIDFailsInv DEF KeyStep
  <1>4. CASE Outside
    BY <1>4, LaunchInv, LaunchRefusedInv, RemoveFileInv, OtherMachineBindsInv DEF Outside
  <1> QED BY <1>1, <1>2, <1>3, <1>4

\* What the invariant is for.
LEMMA SessionInvImplies ==
  SessionInv => ReadyMeansCurrent /\ ConfigIsMemory /\ AcceptedIsEntitled
  <1> SUFFICES ASSUME SessionInv PROVE ReadyMeansCurrent /\ ConfigIsMemory /\ AcceptedIsEntitled
    OBVIOUS
  <1>1. ReadyMeansCurrent
    BY DEF SessionInv, RecordsInv, Honest, LoopInv, Settled, Ready, ReadyMeansCurrent
  <1>2. ConfigIsMemory
    BY DEF SessionInv, DiskInv, ConfigIsMemory
  <1>3. AcceptedIsEntitled
    BY DEF SessionInv, SessionTypeOK, KeyInv, AcceptedIsEntitled
  <1> QED BY <1>1, <1>2, <1>3

\* The session alone: what is on disk of the dependencies is what the server lists,
\* Config.json says what memory says, and the key in use is this machine's, after any
\* number of starts, deaths and failed downloads (OnLoadSaturn.cpp:68-123, OnCheckKey.ixx:27-113).
THEOREM SessionIsSafe == SessionSpec => [](ReadyMeansCurrent /\ ConfigIsMemory /\ AcceptedIsEntitled)
  <1>1. SessionInv /\ [SessionNext]_sessionVars => SessionInv'
    BY StepInv, OpenKeyPageInv, DieInv, StutterInv DEF SessionNext, Close
  <1> QED BY <1>1, InitInv, SessionInvImplies, PTL DEF SessionSpec

-----------------------------------------------------------------------------
(* The session with the pages and the swaps.                                 *)

USE DEF document

\* What Next, Previous and Search count from: the page is shown as its number says.
Current ==
  container = IF source = "page" THEN GetItems(Tab, catalogue) ELSE Searched(source, catalogue)

CardsInv ==
  /\ Tab \in Nat
  /\ source \in {"page"} \cup Filters
  /\ catalogue = "none" => Tab = 0 /\ page # "items"
  /\ \A tab \in 1 .. Tab : GetItems(tab, catalogue) # <<>>
  /\ page = "items" /\ ~early =>
       IF loaded THEN Current
                 ELSE source = "page" /\ ItemsToDisplay = GetItems(Tab, catalogue)

Asked == {IF FConfig.bHasSwappedSkin THEN "revert" ELSE "apply"}

DialogInv ==
  /\ hiding = "none" /\ modals # {} => stage = "Home" /\ modals = Asked
  /\ hiding # "none" => modals = {hiding}

\* The inductive invariant.
SwapperInv == SessionInv /\ CardsInv /\ DialogInv

LEMMA SwapperInit == Init => SwapperInv
  <1> SUFFICES ASSUME Init PROVE SwapperInv
    OBVIOUS
  <1>1. SessionInv
    BY InitInv DEF Init
  <1>2. CardsInv
    BY DEF Init, CatalogInit, CardsInv
  <1>3. DialogInv
    BY DEF Init, CatalogInit, DialogInv
  <1> QED BY <1>1, <1>2, <1>3 DEF SwapperInv

-----------------------------------------------------------------------------
(* The end of the process, and steps before the pages.                       *)

LEMMA EndInv == ASSUME SwapperInv, End PROVE SwapperInv'
  <1>1. SessionInv'
    BY DieInv DEF SwapperInv, End
  <1>2. CardsInv'
    BY DEF End, CatalogReset, CardsInv
  <1>3. DialogInv'
    BY DEF End, CatalogReset, DialogInv
  <1> QED BY <1>1, <1>2, <1>3 DEF SwapperInv

LEMMA CardsStay == ASSUME CardsInv, UNCHANGED catalogVars PROVE CardsInv'
  BY DEF CardsInv, Current, catalogVars

\* With a page open nothing of the start or the key page happens.
LEMMA HomeStays ==
  ASSUME SessionInv, stage = "Home", StartStep \/ SaveStep \/ KeyStep \/ Outside
  PROVE  UNCHANGED <<stage, FConfig>>
  BY DEF StartStep, SaveStep, KeyStep, Outside, Keep, OpenDownload, NoDownload, Downloaded,
         DownloadFails, LoadDLL, LoadDLLExits, FetchFails, MappingsThere, OpenMappings,
         NoMappings, CloseMappings, DecompressThrows, Goto, SaveOpen, SaveWrite, KeyRefused,
         KeyFound, SetHWID, SetHWIDFails, Launch, LaunchRefused, RemoveFile, OtherMachineBinds

LEMMA BeforeInv == ASSUME SwapperInv, BeforeThePages PROVE SwapperInv'
  <1>0. StartStep \/ SaveStep \/ KeyStep \/ Outside
    BY DEF BeforeThePages
  <1>1. SessionInv'
    BY <1>0, StepInv DEF SwapperInv
  <1>2. CardsInv'
    BY CardsStay DEF SwapperInv, BeforeThePages
  <1>3. DialogInv'
    <2>1. UNCHANGED <<hiding, modals>>
      BY DEF BeforeThePages, catalogVars
    <2> QED BY <1>0, <2>1, HomeStays DEF SwapperInv, DialogInv, Asked
  <1> QED BY <1>1, <1>2, <1>3 DEF SwapperInv

LEMMA MountInv == ASSUME SwapperInv, MountAsync PROVE SwapperInv'
  <1>1. SessionInv'
    BY OpenKeyPageInv DEF SwapperInv, MountAsync
  <1>2. CardsInv'
    BY CardsStay DEF SwapperInv, MountAsync
  <1>3. DialogInv'
    BY DEF SwapperInv, DialogInv, MountAsync, OpenKeyPage, catalogVars
  <1> QED BY <1>1, <1>2, <1>3 DEF SwapperInv

-----------------------------------------------------------------------------
(* The pages.                                                                *)

LEMMA SessionStays == CatalogStep => UNCHANGED sessionVars
  BY DEF CatalogStep, ShowHome, ShowCosmetics, SendToHome, SendToSkins, OnLoad, OnNextPage,
         OnPreviousPage, OnSearch, Display, OnClick, Cancel, HideModal

LEMMA KeyIsThere == ASSUME SessionInv, stage = "Home" PROVE RuntimeKey # NoKey
  BY DEF SessionInv, KeyInv

LEMMA LeaveInv ==
  ASSUME CardsInv, ShowHome \/ ShowCosmetics \/ SendToHome
  PROVE  CardsInv'
  BY DEF CardsInv, ShowHome, ShowCosmetics, SendToHome, SendToURL

LEMMA SkinsInv == ASSUME CardsInv, SendToSkins PROVE CardsInv'
  BY DEF CardsInv, SendToSkins, SendToURL, OnGenerateSkins

LEMMA OnLoadInv == ASSUME CardsInv, SessionInv, OnLoad PROVE CardsInv'
  BY KeyIsThere DEF CardsInv, Current, OnLoad, Idle, OnDisplayItems

\* Whatever is displayed is what the page number, or the search, stands for.
LEMMA DisplayInv ==
  ASSUME CardsInv, SessionInv, stage = "Home", page = "items", NEW items,
         NEW from \in {"page"} \cup Filters, Display(items, from),
         Tab' \in Nat, \A tab \in 1 .. Tab' : GetItems(tab, catalogue) # <<>>,
         items = IF from = "page" THEN GetItems(Tab', catalogue) ELSE Searched(from, catalogue)
  PROVE  CardsInv'
  BY KeyIsThere DEF CardsInv, Current, Display, OnDisplayItems

LEMMA NextInv == ASSUME CardsInv, SessionInv, OnNextPage PROVE CardsInv'
  <1> DEFINE items == GetItems(Tab + 1, catalogue)
  <1>0. stage = "Home" /\ page = "items"
    BY DEF OnNextPage, Clickable, Idle
  <1>1. CASE items # <<>> /\ Tab' = Tab + 1 /\ Display(items, "page")
    <2>1. Tab' \in Nat
      BY <1>1 DEF CardsInv
    <2>2. ASSUME NEW tab \in 1 .. Tab' PROVE GetItems(tab, catalogue) # <<>>
      <3>1. tab \in 1 .. Tab \/ tab = Tab + 1
        BY <1>1, <2>2 DEF CardsInv
      <3> QED BY <3>1, <1>1 DEF CardsInv
    <2> QED BY <1>0, <1>1, <2>1, <2>2, DisplayInv
  <1>2. CASE /\ early' = (early \/ ~loaded)
             /\ UNCHANGED <<document, Tab, catalogue, source>>
    BY <1>2 DEF CardsInv, Current
  <1> QED BY <1>1, <1>2 DEF OnNextPage

LEMMA PreviousInv == ASSUME CardsInv, SessionInv, OnPreviousPage PROVE CardsInv'
  BY DisplayInv DEF CardsInv, OnPreviousPage, Clickable, Idle

LEMMA SearchInv ==
  ASSUME CardsInv, SessionInv, NEW filter \in Filters \cup {""}, OnSearch(filter)
  PROVE  CardsInv'
  BY DisplayInv, CatalogAssumption DEF CatalogAssumption, CardsInv, OnSearch, FilterItems, Clickable, Idle

LEMMA CardInv ==
  ASSUME CardsInv, Cancel \/ HideModal \/ \E id \in Ids : OnClick(id)
  PROVE  CardsInv'
  BY DEF CardsInv, Current, Cancel, HideModal, OnClick

LEMMA PagesInv == ASSUME SwapperInv, OnThePages PROVE SwapperInv'
  <1>1. SessionInv'
    BY SessionStays, StutterInv DEF SwapperInv, OnThePages
  <1>2. CardsInv'
    BY LeaveInv, SkinsInv, OnLoadInv, NextInv, PreviousInv, SearchInv, CardInv
    DEF SwapperInv, OnThePages, CatalogStep
  <1>3. DialogInv'
    <2>1. UNCHANGED <<stage, FConfig>>
      BY SessionStays DEF OnThePages, sessionVars
    <2> QED BY <2>1 DEF SwapperInv, DialogInv, Asked, OnThePages, CatalogStep, ShowHome,
           ShowCosmetics, SendToHome, SendToSkins, SendToURL, OnLoad, OnNextPage,
           OnPreviousPage, OnSearch, Display, OnClick, Cancel, HideModal, Clickable, Idle
  <1> QED BY <1>1, <1>2, <1>3 DEF SwapperInv

-----------------------------------------------------------------------------
(* Convert.                                                                  *)

\* The flag is set or cleared and saved, or only saved.
LEMMA SavesInv ==
  ASSUME SessionInv, stage \in {"Home", "Convert"}, NEW flag \in BOOLEAN,
         FConfig' \in {FConfig, [FConfig EXCEPT !.bHasSwappedSkin = flag]},
         stage' = "Save", after' \in {"Save", "Home"},
         UNCHANGED <<bLoaded, RuntimeKey, todo, current, OodleLoaded, versionData, key, config,
                     externals, owner, launches>>
  PROVE  SessionInv'
  <1>c. FConfig' \in Configs /\ FConfig'.Dependencies = FConfig.Dependencies
    <2>1. FConfig \in Configs
      BY DEF SessionInv, SessionTypeOK
    <2> QED BY <2>1, Flagged
  <1>1. SessionTypeOK'
    BY <1>c DEF SessionInv, SessionTypeOK, Starting
  <1>2. RecordsInv'
    BY <1>c DEF SessionInv, RecordsInv, Honest
  <1>3. LoopInv'
    BY <1>c DEF SessionInv, LoopInv, Settled, Ready
  <1>4. DiskInv'
    BY DEF SessionInv, DiskInv, Ready
  <1>5. KeyInv'
    BY DEF SessionInv, KeyInv
  <1> QED BY <1>1, <1>2, <1>3, <1>4, <1>5 DEF SessionInv

LEMMA AddInv == ASSUME SwapperInv, AddLoadoutItem PROVE CardsInv' /\ DialogInv'
  <1>1. CardsInv'
    BY DEF SwapperInv, CardsInv, Current, AddLoadoutItem
  <1>2. DialogInv'
    BY DEF SwapperInv, DialogInv, Asked, AddLoadoutItem, Idle
  <1> QED BY <1>1, <1>2

LEMMA RevertInv == ASSUME SwapperInv, Revert PROVE SwapperInv'
  <1>1. SessionInv'
    BY SavesInv DEF SwapperInv, Revert, AddLoadoutItem, SaveTwice, Save, Idle
  <1> QED BY <1>1, AddInv DEF SwapperInv, Revert

LEMMA LoadPackageInv == ASSUME SwapperInv, LoadPackage PROVE SwapperInv'
  <1>u. /\ stage = "Home" /\ stage' = "Convert"
        /\ UNCHANGED <<after, FConfig, bLoaded, RuntimeKey, todo, current, OodleLoaded,
                       versionData, key, config, externals, owner, launches>>
    BY DEF LoadPackage, AddLoadoutItem, Idle
  <1>1. SessionInv'
    <2>1. SessionTypeOK'
      BY <1>u DEF SwapperInv, SessionInv, SessionTypeOK
    <2>2. RecordsInv'
      BY <1>u DEF SwapperInv, SessionInv, RecordsInv, Honest
    <2>3. LoopInv' /\ DiskInv' /\ KeyInv'
      BY <1>u DEF SwapperInv, SessionInv, LoopInv, DiskInv, KeyInv, Settled, Ready
    <2> QED BY <2>1, <2>2, <2>3 DEF SessionInv
  <1> QED BY <1>1, AddInv DEF SwapperInv, LoadPackage

\* With a package read the dialog is still up, and hidden when OnAddItem returns.
LEMMA PatchInv ==
  ASSUME SwapperInv, PatchFortnite \/ PatchFortniteFails
  PROVE  SwapperInv'
  <1>1. SessionInv'
    BY SavesInv DEF SwapperInv, PatchFortnite, PatchFortniteFails, SaveTwice, Save
  <1>2. CardsInv'
    BY CardsStay DEF SwapperInv, PatchFortnite, PatchFortniteFails
  <1>3. DialogInv'
    BY DEF SwapperInv, DialogInv, PatchFortnite, PatchFortniteFails, catalogVars
  <1> QED BY <1>1, <1>2, <1>3 DEF SwapperInv

LEMMA ExportsInv == ASSUME SwapperInv, UNCHANGED <<sessionVars, catalogVars>> PROVE SwapperInv'
  <1>1. SessionInv'
    BY StutterInv DEF SwapperInv
  <1>2. CardsInv'
    BY CardsStay DEF SwapperInv
  <1>3. DialogInv'
    BY DEF SwapperInv, DialogInv, Asked, sessionVars, catalogVars
  <1> QED BY <1>1, <1>2, <1>3 DEF SwapperInv

LEMMA ConvertingInv == ASSUME SwapperInv, Converting PROVE SwapperInv'
  <1>1. CASE Revert \/ LoadPackage \/ PatchFortnite \/ PatchFortniteFails
    BY <1>1, RevertInv, LoadPackageInv, PatchInv
  <1>2. CASE ProcessExports
    BY <1>2, ExportsInv DEF ProcessExports
  <1>3. CASE LoadPackageDies \/ ProcessExportsDies \/ GetPropertyDies
    BY <1>3, EndInv DEF LoadPackageDies, ProcessExportsDies, GetPropertyDies, Crash
  <1> QED BY <1>1, <1>2, <1>3 DEF Converting

\* The inductive invariant holds throughout, in every process, on every page and in
\* every swap and revert (OnLoadSaturn.cpp:36-144, itemManager.js:13-38, OnAddItem.ixx:12-57).
THEOREM SwapperInvariant == Spec => []SwapperInv
  <1>1. SwapperInv /\ [Next]_vars => SwapperInv'
    BY BeforeInv, MountInv, PagesInv, ConvertingInv, EndInv, ExportsInv
    DEF Next, CloseSaturn, vars
  <1> QED BY <1>1, SwapperInit, PTL DEF Spec

\* A start that is done with the dependencies has the files the server lists, also
\* after the pages, swaps and reverts of earlier processes (OnLoadSaturn.cpp:68-80).
THEOREM FilesAreCurrent == Spec => []ReadyMeansCurrent
  BY SwapperInvariant, SessionInvImplies, PTL DEF SwapperInv

\* When no Save is due Config.json says what memory says (Config.cpp:26-91).
THEOREM ConfigIsSaved == Spec => []ConfigIsMemory
  BY SwapperInvariant, SessionInvImplies, PTL DEF SwapperInv

\* Nobody gets behind the key page without a key of this machine (OnCheckKey.ixx:32-99).
THEOREM KeysAreOwned == Spec => []AcceptedIsEntitled
  BY SwapperInvariant, SessionInvImplies, PTL DEF SwapperInv

\* The cards are those of the page number or of the last search, for every registry,
\* page size and catalogue (OnNextPage.ixx, OnPreviousPage.ixx, OnSearch.ixx,
\* OnDisplayItems.ixx): above page zero because every page up to it has cards.
THEOREM CardsAreCurrent == Spec => []ContainerIsCurrent
  <1>1. SwapperInv => ContainerIsCurrent
    <2> SUFFICES ASSUME SwapperInv, page = "items", loaded, ~early
        PROVE  /\ container = IF source = "page" THEN GetItems(Tab, catalogue)
                                                 ELSE FilterItems(source, Tab)
               /\ Tab > 0 => GetItems(Tab, catalogue) # <<>>
      BY DEF ContainerIsCurrent
    <2>1. Current /\ source \in {"page"} \cup Filters
      BY DEF SwapperInv, CardsInv
    <2>2. source # "page" => FilterItems(source, Tab) = Searched(source, catalogue)
      BY <2>1, CatalogAssumption DEF CatalogAssumption, FilterItems
    <2>3. Tab > 0 => GetItems(Tab, catalogue) # <<>>
      BY DEF SwapperInv, CardsInv
    <2> QED BY <2>1, <2>2, <2>3 DEF Current
  <1> QED BY <1>1, SwapperInvariant, PTL

\* An open dialog asks for what its button will do (itemManager.js:14-33).
THEOREM DialogIsTrue == Spec => []DialogTellsTruth
  <1>1. SwapperInv => DialogTellsTruth
    BY DEF SwapperInv, DialogInv, Asked, DialogTellsTruth
  <1> QED BY <1>1, SwapperInvariant, PTL

-----------------------------------------------------------------------------
(* The list of skins: the places of a set of the registry's assets, and the   *)
(* page a named one is on.                                                   *)

Places == DOMAIN Registry

LEMMA PlacesAre ==
  /\ Places = 1 .. Len(Registry) /\ Len(Registry) \in Nat /\ Places \in SUBSET Nat
  /\ PageSize \in Nat \ {0}
  <1>1. Registry \in Seq(Assets) /\ PageSize \in Nat \ {0}
    BY CatalogAssumption DEF CatalogAssumption
  <1>2. DOMAIN Registry = 1 .. Len(Registry) /\ Len(Registry) \in Nat
    BY <1>1
  <1> QED BY <1>1, <1>2 DEF Places

LEMMA NamedArePlaces ==
  ASSUME NEW t, NEW answer
  PROVE  /\ Skins \in SUBSET Places /\ SkinsFrom(t) \in SUBSET Skins
         /\ Named(Skins, answer) \in SUBSET Skins
         /\ Named(SkinsFrom(t), answer) \in SUBSET SkinsFrom(t)
  BY DEF Skins, Places, SkinsFrom, Named

\* A set of places is finite, and an asset of it has a place.
LEMMA RankRange ==
  ASSUME NEW I \in SUBSET Places, NEW i \in Nat
  PROVE  /\ IsFiniteSet(I) /\ Cardinality(I) \in Nat
         /\ Rank(I, i) \in Nat /\ Rank(I, i) <= Cardinality(I)
         /\ i \in I => Rank(I, i) >= 1
  <1> DEFINE B == {j \in I : j <= i}
  <1>1. I \in SUBSET (1 .. Len(Registry)) /\ Len(Registry) \in Nat
    BY PlacesAre
  <1>2. IsFiniteSet(I)
    <2>1. IsFiniteSet(1 .. Len(Registry))
      BY <1>1, FS_Interval
    <2> QED BY <1>1, <2>1, FS_Subset
  <1>3. B \in SUBSET I
    OBVIOUS
  <1>4. IsFiniteSet(B) /\ Cardinality(B) <= Cardinality(I) /\ Cardinality(B) \in Nat /\ Cardinality(I) \in Nat
    BY <1>2, <1>3, FS_Subset, FS_CardinalityType
  <1>5. ASSUME i \in I PROVE Cardinality(B) >= 1
    <2>1. B # {}
      BY <1>5
    <2> HIDE DEF B
    <2>2. Cardinality(B) # 0
      BY <1>4, <2>1, FS_EmptySet
    <2> QED BY <1>4, <2>2
  <1> HIDE DEF B
  <1>6. Rank(I, i) = Cardinality(B)
    BY DEF B, Rank
  <1> QED BY <1>2, <1>4, <1>5, <1>6

\* The places are in the order of the registry.
LEMMA RankGrows ==
  ASSUME NEW I \in SUBSET Places, NEW i \in I, NEW j \in I, i < j
  PROVE  Rank(I, i) < Rank(I, j)
  <1> DEFINE A == {x \in I : x <= i}
             B == {x \in I : x <= j}
  <1>0. I \in SUBSET Nat
    BY PlacesAre
  <1>1. Rank(I, i) = Cardinality(A) /\ Rank(I, j) = Cardinality(B)
    BY DEF Rank
  <1>2. Rank(I, i) \in Nat /\ Rank(I, j) \in Nat /\ IsFiniteSet(I)
    BY <1>0, RankRange
  <1>3. A \in SUBSET B /\ A # B
    <2>1. j \in B /\ j \notin A
      BY <1>0
    <2>2. \A x \in A : x \in B
      BY <1>0
    <2> HIDE DEF A, B
    <2> QED BY <2>1, <2>2
  <1>4. IsFiniteSet(B)
    BY <1>2, FS_Subset
  <1> HIDE DEF A, B
  <1>5. Cardinality(A) <= Cardinality(B) /\ Cardinality(A) # Cardinality(B)
    BY <1>3, <1>4, FS_Subset
  <1> QED BY <1>1, <1>2, <1>5

LEMMA RankTells ==
  ASSUME NEW I \in SUBSET Places, NEW i \in I, NEW j \in I, Rank(I, i) = Rank(I, j)
  PROVE  i = j
  <1>1. i \in Nat /\ j \in Nat
    BY PlacesAre
  <1>2. Rank(I, i) \in Nat
    BY <1>1, RankRange
  <1>3. ~(i < j) /\ ~(j < i)
    BY <1>2, RankGrows
  <1> QED BY <1>1, <1>3

\* A set's ids are its assets' ids, each at its asset's place.
LEMMA IdsAreListed ==
  ASSUME NEW I \in SUBSET Places, NEW i \in I
  PROVE  /\ Rank(I, i) \in DOMAIN IdsOf(I) /\ IdsOf(I)[Rank(I, i)] = Registry[i].id
         /\ IdsOf(I) # <<>>
  <1>1. i \in Nat
    BY PlacesAre
  <1>2. Cardinality(I) \in Nat /\ Rank(I, i) \in 1 .. Cardinality(I)
    BY <1>1, RankRange
  <1>3. (CHOOSE x \in I : Rank(I, x) = Rank(I, i)) = i
    BY RankTells
  <1>4. DOMAIN IdsOf(I) = 1 .. Cardinality(I)
    BY DEF IdsOf
  <1>5. IdsOf(I)[Rank(I, i)] = Registry[i].id
    BY <1>2, <1>3 DEF IdsOf
  <1>6. IdsOf(I) # <<>>
    BY <1>2, <1>4
  <1> QED BY <1>2, <1>4, <1>5, <1>6

\* The page that a place is on, and the pages before it.
LEMMA PageOf ==
  ASSUME NEW P \in Nat \ {0}, NEW R \in Nat \ {0}
  PROVE  \E t \in Nat : t <= R /\ R <= (t + 1) * P /\ \A b \in 0 .. t : b * P < R
  <1> DEFINE T == {t \in Nat : R <= (t + 1) * P}
  <1>1. R \in T
    <2>1. (R + 1) * P >= (R + 1) * 1
      OBVIOUS
    <2> QED BY <2>1
  <1>2. PICK t \in T : \A y \in T : t <= y
    <2> T \in SUBSET Nat /\ T # {}
      BY <1>1
    <2> HIDE DEF T
    <2> QED BY LeastMember
  <1>3. t \in Nat /\ t <= R /\ R <= (t + 1) * P
    BY <1>1, <1>2
  <1>4. ASSUME NEW b \in 0 .. t PROVE b * P < R
    <2>1. CASE b = 0
      BY <2>1
    <2>2. CASE b # 0
      <3>1. b - 1 \in Nat /\ (b - 1) + 1 = b /\ ~(t <= b - 1)
        BY <1>3, <2>2
      <3>2. ~(R <= ((b - 1) + 1) * P)
        BY <1>2, <3>1
      <3>3. b * P \in Nat
        BY <1>3
      <3> QED BY <3>1, <3>2, <3>3
    <2> QED BY <2>1, <2>2
  <1> QED BY <1>3, <1>4

\* Of the assets left after the pages before, those up to one on the page fit the page.
LEMMA FewBefore ==
  ASSUME NEW t \in Nat, NEW i \in Skins, NEW N \in SUBSET SkinsFrom(t),
         Rank(Skins, i) <= (t + 1) * PageSize, t * PageSize < Rank(Skins, i)
  PROVE  Rank(N, i) <= PageSize
  <1> DEFINE A == {j \in N : j <= i}
             a == t * PageSize
             R == Rank(Skins, i)
             f == [j \in A |-> Rank(Skins, j)]
  <1>1. /\ Skins \in SUBSET Places /\ N \in SUBSET Skins /\ N \in SUBSET Places
        /\ Places \in SUBSET Nat
        /\ PageSize \in Nat \ {0}
    BY PlacesAre, NamedArePlaces
  <1>2. a \in Nat /\ R \in Nat /\ a < R /\ R <= a + PageSize
    <2>1. (t + 1) * PageSize = t * PageSize + PageSize /\ t * PageSize \in Nat
      BY <1>1
    <2>2. R \in Nat
      BY <1>1, RankRange
    <2> QED BY <2>1, <2>2
  <1>3. ASSUME NEW j \in A PROVE Rank(Skins, j) \in a + 1 .. R
    <2>1. j \in Skins /\ j \in Nat /\ i \in Nat /\ j <= i
      BY <1>1
    <2>2. Rank(Skins, j) \in Nat /\ Rank(Skins, j) > a
      <3>1. Rank(Skins, j) \in Nat
        BY <1>1, <2>1, RankRange
      <3>2. j \in SkinsFrom(t)
        OBVIOUS
      <3> QED BY <3>1, <3>2 DEF SkinsFrom
    <2>3. Rank(Skins, j) <= R
      <3>1. CASE j = i
        BY <1>2, <3>1
      <3>2. CASE j # i
        <4>1. j < i
          BY <2>1, <3>2
        <4>2. Rank(Skins, j) < Rank(Skins, i)
          BY <1>1, <2>1, <4>1, RankGrows
        <4> QED BY <1>2, <2>2, <4>2
      <3> QED BY <3>1, <3>2
    <2> HIDE DEF a, R
    <2> QED BY <1>2, <2>2, <2>3
  <1>4. ASSUME NEW j \in A, NEW k \in A, f[j] = f[k] PROVE j = k
    BY <1>1, <1>4, RankTells
  <1>5. f \in Injection(A, a + 1 .. R)
    <2> HIDE DEF A, a, R
    <2>1. f \in [A -> a + 1 .. R]
      BY <1>3
    <2> HIDE DEF f
    <2> QED BY <1>4, <2>1 DEF Injection, IsInjective
  <1> HIDE DEF A, a, R, f
  <1>6. IsFiniteSet(a + 1 .. R) /\ Cardinality(a + 1 .. R) = R - a
    <2>1. a + 1 \in Int /\ R \in Int /\ ~(a + 1 > R) /\ R - (a + 1) + 1 = R - a
      BY <1>2
    <2> QED BY <2>1, FS_Interval
  <1>7. IsFiniteSet(A) /\ Cardinality(A) <= R - a
    BY <1>5, <1>6, FS_Injection
  <1>8. Rank(N, i) = Cardinality(A) /\ Cardinality(A) \in Nat
    BY <1>7, FS_CardinalityType DEF Rank, A
  <1> QED BY <1>1, <1>2, <1>7, <1>8

\* A page of which a named asset is left is not empty.
LEMMA PageHasItems ==
  ASSUME NEW t \in Nat, NEW answer, Named(SkinsFrom(t), answer) # {}
  PROVE  GetItems(t, answer) # <<>>
  <1> DEFINE N == Named(SkinsFrom(t), answer)
  <1>1. N \in SUBSET Places /\ Places \in SUBSET Nat /\ PageSize \in Nat \ {0}
    BY PlacesAre, NamedArePlaces
  <1>2. PICK x \in N : \A y \in N : x <= y
    <2> HIDE DEF N
    <2>1. N \in SUBSET Nat /\ N # {}
      BY <1>1 DEF N
    <2> QED BY <2>1, LeastMember
  <1> HIDE DEF N
  <1>3. {j \in N : j <= x} = {x}
    <2>1. x \in N /\ x <= x /\ \A y \in N : y <= x => y = x
      BY <1>1, <1>2
    <2>2. \A y : y \in {j \in N : j <= x} <=> y \in {x}
      BY <2>1
    <2> QED BY <2>2
  <1>4. Rank(N, x) = 1
    BY <1>3, FS_Singleton DEF Rank
  <1>5. x \in FirstOf(N, PageSize) /\ FirstOf(N, PageSize) \in SUBSET Places
    <2>1. 1 <= PageSize /\ N \in SUBSET Places
      BY <1>1
    <2>2. x \in FirstOf(N, PageSize)
      BY <1>4, <2>1 DEF FirstOf
    <2> QED BY <2>1, <2>2 DEF FirstOf
  <1>6. IdsOf(FirstOf(N, PageSize)) # <<>>
    BY <1>5, IdsAreListed
  <1> QED BY <1>6 DEF GetItems, N

\* Turning pages from the first until one has no cards shows every named skin, whatever
\* unnamed ones lie between (SkinGenerator.cpp:31-70, OnNextPage.ixx:12-44): a page is at
\* least as long as what the next one skips.
LEMMA NamedAreOnPages ==
  ASSUME NEW i \in Named(Skins, "answered")
  PROVE  \E tab \in DOMAIN Pages :
           /\ \E j \in DOMAIN Pages[tab] : Pages[tab][j] = Registry[i].id
           /\ \A before \in 0 .. tab : Pages[before] # <<>>
  <1> DEFINE R == Rank(Skins, i)
  <1>1. /\ i \in Skins /\ i \in Nat /\ Skins \in SUBSET Places /\ Places = 1 .. Len(Registry)
        /\ PageSize \in Nat \ {0} /\ Len(Registry) \in Nat /\ HasName(i, "answered")
    BY PlacesAre, NamedArePlaces DEF Named
  <1>2. R \in Nat \ {0} /\ R <= Len(Registry)
    <2>1. R \in Nat \ {0} /\ R <= Cardinality(Skins) /\ Cardinality(Skins) \in Nat
      BY <1>1, RankRange
    <2>2. IsFiniteSet(1 .. Len(Registry)) /\ Cardinality(1 .. Len(Registry)) = Len(Registry)
      BY <1>1, CountingTo
    <2>3. Cardinality(Skins) <= Len(Registry)
      BY <1>1, <2>2, FS_Subset
    <2> QED BY <1>1, <2>1, <2>3
  <1>3. PICK t \in Nat : t <= R /\ R <= (t + 1) * PageSize /\ \A b \in 0 .. t : b * PageSize < R
    BY <1>1, <1>2, PageOf
  <1>4. t \in 0 .. Len(Registry)
    BY <1>1, <1>2, <1>3
  <1>5. \A b \in 0 .. t : i \in Named(SkinsFrom(b), "answered")
    BY <1>1, <1>3 DEF Named, SkinsFrom
  <1>6. \A b \in 0 .. t : b \in 0 .. Len(Registry) /\ b \in Nat
    BY <1>1, <1>4
  <1>7. \A b \in 0 .. t : Pages[b] # <<>>
    BY <1>5, <1>6, PageHasItems DEF Pages
  <1> DEFINE N == Named(SkinsFrom(t), "answered")
  <1>8. t \in 0 .. t
    BY <1>3
  <1>9. N \in SUBSET SkinsFrom(t) /\ i \in N /\ N \in SUBSET Places
    BY <1>1, <1>5, <1>8 DEF Named, SkinsFrom
  <1>10. i \in FirstOf(N, PageSize) /\ FirstOf(N, PageSize) \in SUBSET Places
    <2> HIDE DEF N, R
    <2>1. Rank(N, i) <= PageSize
      BY <1>1, <1>3, <1>8, <1>9, FewBefore DEF R
    <2> QED BY <1>9, <2>1 DEF FirstOf
  <1>11. \E j \in DOMAIN IdsOf(FirstOf(N, PageSize)) : IdsOf(FirstOf(N, PageSize))[j] = Registry[i].id
    <2> HIDE DEF N
    <2> QED BY <1>10, IdsAreListed
  <1>12. Pages[t] = IdsOf(FirstOf(N, PageSize)) /\ t \in DOMAIN Pages
    BY <1>4 DEF Pages, GetItems
  <1> HIDE DEF N, R
  <1> QED BY <1>7, <1>11, <1>12

\* For every registry, catalogue and page size the pages show every named skin
\* (SkinGenerator.cpp:20-73, OnNextPage.ixx:12-44).
THEOREM SkinsAreListed == Spec => []EverySkinListed
  <1>1. EverySkinListed
    BY NamedAreOnPages DEF EverySkinListed
  <1>2. Init => EverySkinListed
    BY <1>1
  <1>3. EverySkinListed /\ [Next]_vars => EverySkinListed'
    BY NamedAreOnPages DEF EverySkinListed
  <1> QED BY <1>2, <1>3, PTL DEF Spec

-----------------------------------------------------------------------------
(* The classes: tables of objects by name, and what a mappings file makes of  *)
(* them.                                                                      *)

AllNames == SchemaNames \cup UNION {ToSet(schema.uses) : schema \in Structs}
Entries == [kind : {"class", "object"}, props : SchemaNames \cup {""}, super : Nat]

\* One object for a name, and supers that are there.
TableOK(t) ==
  /\ t.objects \in Seq(Entries)
  /\ \A n \in DOMAIN t.array : t.array[n] \in 1 .. Len(t.objects)
  /\ \A m, n \in DOMAIN t.array : t.array[m] = t.array[n] => m = n
  /\ \A i \in 1 .. Len(t.objects) : t.objects[i].super \in 0 .. Len(t.objects)

Classes(t) == \A i \in 1 .. Len(t.objects) : t.objects[i].kind = "class"

\* What a mappings file makes.
Tables ==
  {t \in [objects : Seq(Entries), array : UNION {[S -> Nat] : S \in SUBSET AllNames}] :
     TableOK(t) /\ Classes(t)}

\* Names were added, blank, and what was there is where it was.
Grown(t, u) ==
  /\ TableOK(u)
  /\ DOMAIN t.array \subseteq DOMAIN u.array
  /\ \A n \in DOMAIN t.array :
       u.array[n] = t.array[n] /\ u.objects[u.array[n]] = t.objects[t.array[n]]
  /\ \A n \in DOMAIN u.array \ DOMAIN t.array : u.objects[u.array[n]].props = ""

LEMMA SchemasAre ==
  /\ Len(Schemas) \in Nat /\ DOMAIN Schemas = 1 .. Len(Schemas)
  /\ \A k \in 1 .. Len(Schemas) : Schemas[k] \in Structs /\ Schemas[k].name \in SchemaNames
  /\ \A i, j \in 1 .. Len(Schemas) : Schemas[i].name = Schemas[j].name => i = j
  /\ \A schema \in Structs :
       /\ schema.name # "" /\ schema.own \in BOOLEAN /\ schema.name \in SchemaNames
       /\ schema.super \in SchemaNames \cup {""}
       /\ schema.uses \in Seq(ToSet(schema.uses))
  <1>1. Schemas \in Seq(Structs)
    BY SchemaAssumption DEF SchemaAssumption
  <1>2. \A i, j \in DOMAIN Schemas : Schemas[i].name = Schemas[j].name => i = j
    BY SchemaAssumption DEF SchemaAssumption
  <1>3. \A schema \in Structs :
          /\ schema.name # "" /\ schema.own \in BOOLEAN
          /\ schema.super \in SchemaNames \cup {""}
          /\ schema.uses \in Seq(ToSet(schema.uses))
    BY SchemaAssumption DEF SchemaAssumption
  <1>4. Len(Schemas) \in Nat /\ DOMAIN Schemas = 1 .. Len(Schemas)
    BY <1>1
  <1>5. \A k \in 1 .. Len(Schemas) : Schemas[k] \in Structs
    BY <1>1
  <1>6. \A schema \in Structs : schema.name \in SchemaNames
    BY DEF SchemaNames
  <1> QED BY <1>2, <1>3, <1>4, <1>5, <1>6

LEMMA GrownSelf == ASSUME NEW t, TableOK(t) PROVE Grown(t, t)
  BY DEF Grown

LEMMA GrownTrans ==
  ASSUME NEW t, NEW u, NEW v, Grown(t, u), Grown(u, v)
  PROVE  Grown(t, v)
  BY DEF Grown

LEMMA AddedGrows ==
  ASSUME NEW t, TableOK(t), NEW name, name \notin DOMAIN t.array, NEW kind \in {"class", "object"}
  PROVE  /\ Grown(t, Added(t, name, kind))
         /\ DOMAIN Added(t, name, kind).array = DOMAIN t.array \cup {name}
  <1> DEFINE u == Added(t, name, kind)
             n == Len(t.objects)
             new == [kind |-> kind, props |-> "", super |-> 0]
  <1>1. u.objects = Append(t.objects, new) /\ u.array = [x \in DOMAIN t.array \cup {name} |->
                  IF x = name THEN n + 1 ELSE t.array[x]]
    BY DEF Added
  <1>2. new \in Entries
    BY DEF Entries
  <1>3. t.objects \in Seq(Entries) /\ n \in Nat
    BY DEF TableOK
  <1>4. /\ u.objects \in Seq(Entries) /\ Len(u.objects) = n + 1
        /\ u.objects[n + 1] = new /\ \A i \in 1 .. n : u.objects[i] = t.objects[i]
    <2> HIDE DEF new, u
    <2> QED BY <1>1, <1>2, <1>3
  <1>5. DOMAIN u.array = DOMAIN t.array \cup {name} /\ u.array[name] = n + 1
        /\ \A x \in DOMAIN t.array : u.array[x] = t.array[x] /\ t.array[x] \in 1 .. n
    <2> HIDE DEF u
    <2> QED BY <1>1 DEF TableOK
  <1>6. new.super = 0 /\ new.props = ""
    OBVIOUS
  <1>8. \A i \in 1 .. n : t.objects[i].super \in 0 .. n
    BY DEF TableOK
  <1>7. TableOK(u)
    <2> HIDE DEF u, new, n
    <2>1. \A x \in DOMAIN u.array : u.array[x] \in 1 .. Len(u.objects)
      BY <1>3, <1>4, <1>5
    <2>2. \A x, y \in DOMAIN u.array : u.array[x] = u.array[y] => x = y
      BY <1>3, <1>4, <1>5 DEF TableOK
    <2>3. ASSUME NEW i \in 1 .. Len(u.objects) PROVE u.objects[i].super \in 0 .. Len(u.objects)
      <3>1. i = n + 1 \/ i \in 1 .. n
        BY <1>3, <1>4
      <3>2. u.objects[i].super \in 0 .. n \/ u.objects[i].super = 0
        BY <3>1, <1>4, <1>6, <1>8
      <3> QED BY <3>2, <1>3, <1>4
    <2> QED BY <1>4, <2>1, <2>2, <2>3 DEF TableOK
  <1> HIDE DEF u, new, n
  <1>9. \A x \in DOMAIN t.array : u.objects[u.array[x]] = t.objects[t.array[x]]
    BY <1>4, <1>5
  <1>10. \A x \in DOMAIN u.array \ DOMAIN t.array : u.objects[u.array[x]].props = ""
    BY <1>4, <1>5, <1>6
  <1>11. Grown(t, u)
    BY <1>5, <1>7, <1>9, <1>10 DEF Grown
  <1> QED BY <1>5, <1>11 DEF u

LEMMA AddedKind ==
  ASSUME NEW t, TableOK(t), Classes(t), NEW name
  PROVE  Classes(Added(t, name, "class"))
  <1> DEFINE new == [kind |-> "class", props |-> "", super |-> 0]
             u == Added(t, name, "class")
  <1>1. u.objects = Append(t.objects, new) /\ new.kind = "class" /\ new \in Entries
    BY DEF Added, Entries
  <1>2. t.objects \in Seq(Entries) /\ \A i \in 1 .. Len(t.objects) : t.objects[i].kind = "class"
    BY DEF TableOK, Classes
  <1> HIDE DEF new, u
  <1>3. \A i \in 1 .. Len(u.objects) : u.objects[i].kind = "class"
    BY <1>1, <1>2
  <1> QED BY <1>3 DEF Classes, u

LEMMA RegisteredGrows ==
  ASSUME NEW t, TableOK(t), NEW name, NEW kind \in {"class", "object"}
  PROVE  /\ Grown(t, Registered(t, name, kind))
         /\ DOMAIN Registered(t, name, kind).array = DOMAIN t.array \cup {name}
  <1>1. CASE name \in DOMAIN t.array
    BY <1>1, GrownSelf DEF Registered
  <1>2. CASE name \notin DOMAIN t.array
    BY <1>2, AddedGrows DEF Registered
  <1> QED BY <1>1, <1>2

LEMMA TablesAre ==
  ASSUME NEW t
  PROVE  t \in Tables <=> /\ t = [objects |-> t.objects, array |-> t.array]
                          /\ t.array \in [DOMAIN t.array -> Nat]
                          /\ DOMAIN t.array \in SUBSET AllNames
                          /\ TableOK(t) /\ Classes(t)
  <1> DEFINE A == UNION {[S -> Nat] : S \in SUBSET AllNames}
  <1>1. ASSUME t \in Tables PROVE /\ t = [objects |-> t.objects, array |-> t.array]
                                  /\ t.array \in [DOMAIN t.array -> Nat]
                                  /\ DOMAIN t.array \in SUBSET AllNames
                                  /\ TableOK(t) /\ Classes(t)
    <2>1. t \in [objects : Seq(Entries), array : A] /\ TableOK(t) /\ Classes(t)
      BY <1>1 DEF Tables
    <2>2. t.array \in A /\ t = [objects |-> t.objects, array |-> t.array]
      <3> HIDE DEF A
      <3> QED BY <2>1
    <2>3. PICK S \in SUBSET AllNames : t.array \in [S -> Nat]
      BY <2>2
    <2> QED BY <2>1, <2>2, <2>3
  <1>2. ASSUME t = [objects |-> t.objects, array |-> t.array],
               t.array \in [DOMAIN t.array -> Nat], DOMAIN t.array \in SUBSET AllNames, TableOK(t),
               Classes(t)
        PROVE  t \in Tables
    <2>1. t.array \in A
      BY <1>2
    <2>2. t.objects \in Seq(Entries)
      BY <1>2 DEF TableOK
    <2>3. t \in [objects : Seq(Entries), array : A]
      <3> HIDE DEF A
      <3> QED BY <1>2, <2>1, <2>2
    <2> QED BY <1>2, <2>3 DEF Tables
  <1> QED BY <1>1, <1>2

LEMMA RegisteredTable ==
  ASSUME NEW t \in Tables, NEW name \in AllNames
  PROVE  Registered(t, name, "class") \in Tables
  <1>1. CASE name \in DOMAIN t.array
    BY <1>1 DEF Registered
  <1>2. CASE name \notin DOMAIN t.array
    <2> DEFINE u == Added(t, name, "class")
    <2>1. /\ t.array \in [DOMAIN t.array -> Nat] /\ DOMAIN t.array \in SUBSET AllNames
          /\ TableOK(t) /\ Classes(t)
      BY TablesAre
    <2>2. Len(t.objects) + 1 \in Nat
      BY <2>1 DEF TableOK
    <2>3. u = [objects |-> u.objects, array |-> u.array]
      BY DEF Added
    <2>4. u.array = [x \in DOMAIN t.array \cup {name} |->
                       IF x = name THEN Len(t.objects) + 1 ELSE t.array[x]]
      BY DEF Added
    <2>5. TableOK(u)
      BY <1>2, <2>1, AddedGrows DEF Grown
    <2>8. Classes(u)
      BY <2>1, AddedKind
    <2> HIDE DEF u
    <2>6. u.array \in [DOMAIN u.array -> Nat] /\ DOMAIN u.array \in SUBSET AllNames
      BY <2>1, <2>2, <2>4
    <2>7. u \in Tables
      BY <2>3, <2>5, <2>6, <2>8, TablesAre
    <2> QED BY <1>2, <2>7 DEF Registered, u
  <1> QED BY <1>1, <1>2

\* After each of a sequence of names, in the same table.
LEMMA WithUsesGrows ==
  ASSUME NEW t \in Tables, NEW uses, uses \in Seq(AllNames)
  PROVE  /\ WithUses(t, uses)[Len(uses)] \in Tables
         /\ Grown(t, WithUses(t, uses)[Len(uses)])
  <1> DEFINE n == Len(uses)
             F == [p \in Nat \X Tables |-> IF p[1] + 1 \in 1 .. n
                                           THEN Registered(p[2], uses[p[1] + 1], "class") ELSE p[2]]
             P(x) == x = [k \in 0 .. n |-> IF k = 0 THEN t ELSE Registered(x[k - 1], uses[k], "class")]
  <1>1. n \in Nat /\ \A k \in 1 .. n : uses[k] \in AllNames
    OBVIOUS
  <1>2. F \in [Nat \X Tables -> Tables]
    <2>1. ASSUME NEW p \in Nat \X Tables
          PROVE  (IF p[1] + 1 \in 1 .. n THEN Registered(p[2], uses[p[1] + 1], "class") ELSE p[2]) \in Tables
      BY <1>1, RegisteredTable
    <2> QED BY <2>1
  <1> HIDE DEF n
  <1>3. PICK at \in [Nat -> Tables] : at[0] = t /\ \A k \in Nat : at[k + 1] = F[<<k, at[k]>>]
    <2> HIDE DEF F
    <2>1. \E at : Iterates(at, Tables, t, F)
      BY <1>2, Recursion
    <2> QED BY <2>1 DEF Iterates
  <1>4. ASSUME NEW k \in 1 .. n PROVE at[k] = Registered(at[k - 1], uses[k], "class")
    <2>1. k - 1 \in Nat /\ (k - 1) + 1 = k /\ at[k - 1] \in Tables
      BY <1>1, <1>3
    <2>2. at[k] = F[<<k - 1, at[k - 1]>>]
      BY <1>3, <2>1
    <2> QED BY <2>1, <2>2
  <1> DEFINE s == [k \in 0 .. n |-> at[k]]
             w == WithUses(t, uses)
  <1>5. P(s)
    <2>1. ASSUME NEW k \in 0 .. n
          PROVE  s[k] = IF k = 0 THEN t ELSE Registered(s[k - 1], uses[k], "class")
      <3>1. k = 0 \/ (k \in 1 .. n /\ k - 1 \in 0 .. n)
        BY <1>1
      <3> QED BY <1>3, <1>4, <3>1
    <2> QED BY <2>1
  <1>6. w = CHOOSE x : P(x)
    BY DEF WithUses, n
  <1>7. P(w)
    <2> HIDE DEF s, w, P
    <2> QED BY <1>5, <1>6
  <1> HIDE DEF w
  <1>8. /\ w[0] = t
        /\ \A k \in 1 .. n : w[k] = Registered(w[k - 1], uses[k], "class")
    <2>1. 0 \in 0 .. n /\ \A k \in 1 .. n : k \in 0 .. n /\ k # 0
      BY <1>1
    <2> QED BY <1>7, <2>1
  <1> DEFINE Wrongs == {k \in 0 .. n : ~(w[k] \in Tables /\ Grown(t, w[k]))}
  <1>9. Wrongs = {}
    <2> SUFFICES ASSUME Wrongs # {} PROVE FALSE
      OBVIOUS
    <2>1. PICK x \in Wrongs : \A y \in Wrongs : x <= y
      <3>1. Wrongs \in SUBSET Nat
        BY <1>1
      <3> HIDE DEF Wrongs
      <3> QED BY <3>1, LeastMember
    <2>2. TableOK(t)
      BY TablesAre
    <2>3. x # 0
      BY <1>8, <2>2, GrownSelf
    <2>4. x \in 1 .. n /\ x - 1 \in 0 .. n /\ ~(x <= x - 1)
      BY <1>1, <2>3
    <2>5. x - 1 \notin Wrongs
      <3> HIDE DEF Wrongs
      <3> QED BY <2>1, <2>4
    <2>6. w[x - 1] \in Tables /\ Grown(t, w[x - 1])
      BY <2>4, <2>5
    <2>7. w[x] = Registered(w[x - 1], uses[x], "class") /\ uses[x] \in AllNames
      BY <1>1, <1>8, <2>4
    <2>8. w[x] \in Tables /\ Grown(w[x - 1], w[x])
      <3> DEFINE y == w[x - 1]
      <3>1. y \in Tables /\ TableOK(y)
        BY <2>6 DEF Grown
      <3>2. uses[x] \in AllNames /\ w[x] = Registered(y, uses[x], "class") /\ "class" \in {"class", "object"}
        BY <2>7
      <3> HIDE DEF y
      <3>3. w[x] \in Tables
        BY <3>1, <3>2, RegisteredTable
      <3>4. Grown(y, w[x])
        BY <3>1, <3>2, RegisteredGrows
      <3> QED BY <3>3, <3>4 DEF y
    <2>9. Grown(t, w[x])
      BY <2>6, <2>8, GrownTrans
    <2> QED BY <2>8, <2>9
  <1>10. n \in 0 .. n
    BY <1>1
  <1>11. w[n] \in Tables /\ Grown(t, w[n])
    <2> HIDE DEF P
    <2> QED BY <1>9, <1>10
  <1> QED BY <1>11 DEF w, n

-----------------------------------------------------------------------------
(* One struct of the file after the other.                                    *)

\* What a struct leaves behind of its own, and of its super.
IsAt(t, schema) ==
  /\ schema.name \in DOMAIN t.array
  /\ schema.super # "" => schema.super \in DOMAIN t.array
  /\ t.objects[t.array[schema.name]].props = IF schema.own THEN schema.name ELSE ""
  /\ t.objects[t.array[schema.name]].super = IF schema.super = "" THEN 0 ELSE t.array[schema.super]

\* The first k structs are there, and no other name has properties.
Upto(t, k) ==
  /\ \A i \in 1 .. k : IsAt(t, Schemas[i])
  /\ \A n \in DOMAIN t.array :
       (\A i \in 1 .. k : Schemas[i].name # n) => t.objects[t.array[n]].props = ""

LEMMA UptoGrows ==
  ASSUME NEW t, NEW u, NEW k, Upto(t, k), Grown(t, u)
  PROVE  Upto(u, k)
  <1>1. ASSUME NEW i \in 1 .. k PROVE IsAt(u, Schemas[i])
    <2>1. IsAt(t, Schemas[i])
      BY DEF Upto
    <2> QED BY <2>1 DEF IsAt, Grown
  <1>2. ASSUME NEW n \in DOMAIN u.array, \A i \in 1 .. k : Schemas[i].name # n
        PROVE  u.objects[u.array[n]].props = ""
    <2>1. CASE n \in DOMAIN t.array
      BY <1>2, <2>1 DEF Upto, Grown
    <2>2. CASE n \notin DOMAIN t.array
      BY <2>2 DEF Grown
    <2> QED BY <2>1, <2>2
  <1> QED BY <1>1, <1>2 DEF Upto

\* Linked changes the one object.
LEMMA LinkedIs ==
  ASSUME NEW t \in Tables, NEW schema \in Structs, schema.name \in DOMAIN t.array,
         NEW super \in 0 .. Len(t.objects)
  PROVE  LET u == Linked(t, schema, super)
             at == t.array[schema.name]
         IN  /\ u \in Tables /\ u.array = t.array /\ Len(u.objects) = Len(t.objects)
             /\ at \in 1 .. Len(t.objects)
             /\ \A i \in 1 .. Len(t.objects) : i # at => u.objects[i] = t.objects[i]
             /\ u.objects[at].props = IF schema.own THEN schema.name ELSE t.objects[at].props
             /\ u.objects[at].super = super
  <1> DEFINE u == Linked(t, schema, super)
             at == t.array[schema.name]
             n == Len(t.objects)
             old == t.objects[at]
             props == IF schema.own THEN schema.name ELSE old.props
             new == [kind |-> old.kind, props |-> props, super |-> super]
  <1>1. /\ t = [objects |-> t.objects, array |-> t.array]
        /\ t.array \in [DOMAIN t.array -> Nat] /\ DOMAIN t.array \in SUBSET AllNames
        /\ TableOK(t) /\ Classes(t)
    BY TablesAre
  <1>2. t.objects \in Seq(Entries) /\ n \in Nat /\ at \in 1 .. n /\ old \in Entries
    BY <1>1 DEF TableOK
  <1>3. schema.own \in BOOLEAN /\ schema.name \in SchemaNames
    BY SchemasAre
  <1>4. new \in Entries /\ new.props = props /\ new.super = super /\ new.kind = old.kind
    <2>1. props \in SchemaNames \cup {""}
      <3>1. CASE schema.own
        BY <1>3, <3>1
      <3>2. CASE ~schema.own
        BY <1>2, <3>2 DEF Entries
      <3> QED BY <3>1, <3>2
    <2>2. super \in Nat
      BY <1>2
    <2> HIDE DEF props, old, n
    <2>3. old = [kind |-> old.kind, props |-> old.props, super |-> old.super]
          /\ old.kind \in {"class", "object"}
      BY <1>2 DEF Entries
    <2> QED BY <2>1, <2>2, <2>3 DEF Entries
  <1>5. u.array = t.array /\ u = [objects |-> u.objects, array |-> u.array]
        /\ u.objects = [t.objects EXCEPT ![at] = new]
    <2>1. u = [t EXCEPT !.objects[at] =
                 [kind |-> @.kind, props |-> IF schema.own THEN schema.name ELSE @.props, super |-> super]]
      BY DEF Linked
    <2> HIDE DEF u
    <2>2. u.array = t.array /\ u = [objects |-> u.objects, array |-> u.array]
      BY <1>1, <2>1
    <2>3. u.objects = [t.objects EXCEPT ![at] = new]
      BY <1>1, <1>2, <2>1 DEF Entries
    <2> QED BY <2>2, <2>3
  <1> HIDE DEF u, new, props, old
  <1>6. /\ u.objects \in Seq(Entries) /\ Len(u.objects) = n
        /\ u.objects[at] = new /\ \A i \in 1 .. n : i # at => u.objects[i] = t.objects[i]
    BY <1>2, <1>4, <1>5
  <1>7. TableOK(u)
    <2>1. \A i \in 1 .. n : u.objects[i].super \in 0 .. n
      BY <1>1, <1>4, <1>6 DEF TableOK
    <2>2. \A x \in DOMAIN u.array : u.array[x] \in 1 .. n
      BY <1>1, <1>5 DEF TableOK
    <2>3. \A x, y \in DOMAIN u.array : u.array[x] = u.array[y] => x = y
      BY <1>1, <1>5 DEF TableOK
    <2> QED BY <1>6, <2>1, <2>2, <2>3 DEF TableOK
  <1>10. Classes(u)
    <2>1. old.kind = "class" /\ \A i \in 1 .. n : t.objects[i].kind = "class"
      BY <1>1, <1>2 DEF Classes, old
    <2> QED BY <1>4, <1>6, <2>1 DEF Classes
  <1>8. u \in Tables
    BY <1>1, <1>5, <1>7, <1>10, TablesAre
  <1>9. u.objects[at].props = (IF schema.own THEN schema.name ELSE t.objects[at].props)
        /\ u.objects[at].super = super
    BY <1>4, <1>6 DEF props, old
  <1> QED BY <1>2, <1>5, <1>6, <1>8, <1>9 DEF u

\* The struct's own object and its super's are there before they are linked.
LEMMA BothGrow ==
  ASSUME NEW t \in Tables, NEW schema \in Structs
  PROVE  LET b == RegisterSuper(Registered(t, schema.name, "class"), schema)
         IN  /\ b \in Tables /\ Grown(t, b) /\ schema.name \in DOMAIN b.array
             /\ schema.super # "" => schema.super \in DOMAIN b.array
  <1> DEFINE c == Registered(t, schema.name, "class")
             b == RegisterSuper(c, schema)
  <1>0. "class" \in {"class", "object"}
    OBVIOUS
  <1>1. schema.name \in AllNames /\ (schema.super # "" => schema.super \in AllNames)
    BY SchemasAre DEF AllNames
  <1>2. TableOK(t)
    BY TablesAre
  <1>3. c \in Tables /\ Grown(t, c) /\ schema.name \in DOMAIN c.array
    <2>1. schema.name \in AllNames
      BY <1>1
    <2>2. c \in Tables
      BY <1>0, <2>1, RegisteredTable
    <2>3. Grown(t, c) /\ DOMAIN c.array = DOMAIN t.array \cup {schema.name}
      BY <1>0, <1>2, RegisteredGrows
    <2> QED BY <2>2, <2>3
  <1>4. TableOK(c)
    BY <1>3 DEF Grown
  <1> HIDE DEF c
  <1>5. CASE schema.super = ""
    BY <1>3, <1>5 DEF RegisterSuper, c
  <1>6. CASE schema.super # ""
    <2>1. b = Registered(c, schema.super, "class")
      BY <1>6 DEF RegisterSuper
    <2> HIDE DEF b
    <2>2. b \in Tables /\ Grown(c, b) /\ DOMAIN b.array = DOMAIN c.array \cup {schema.super}
      BY <1>0, <1>1, <1>3, <1>4, <1>6, <2>1, RegisteredTable, RegisteredGrows
    <2>3. Grown(t, b)
      BY <1>3, <2>2, GrownTrans
    <2> QED BY <1>3, <2>2, <2>3 DEF b, c
  <1> QED BY <1>5, <1>6

\* The table between: linked, the structs of the properties still to come.
LinkedFrom(t, schema) ==
  LET b == RegisterSuper(Registered(t, schema.name, "class"), schema)
  IN  Linked(b, schema, IF schema.super = "" THEN 0 ELSE b.array[schema.super])

LEMMA StructLinked ==
  ASSUME NEW t \in Tables, NEW schema \in Structs
  PROVE  LET b == RegisterSuper(Registered(t, schema.name, "class"), schema)
             l == LinkedFrom(t, schema)
             at == b.array[schema.name]
         IN  /\ l \in Tables /\ l.array = b.array
             /\ at \in 1 .. Len(b.objects)
             /\ \A i \in 1 .. Len(b.objects) : i # at => l.objects[i] = b.objects[i]
             /\ l.objects[at].props = IF schema.own THEN schema.name ELSE b.objects[at].props
             /\ l.objects[at].super = IF schema.super = "" THEN 0 ELSE b.array[schema.super]
  <1> DEFINE b == RegisterSuper(Registered(t, schema.name, "class"), schema)
             super == IF schema.super = "" THEN 0 ELSE b.array[schema.super]
  <1>1. /\ b \in Tables /\ schema.name \in DOMAIN b.array
        /\ schema.super # "" => schema.super \in DOMAIN b.array
    BY BothGrow
  <1> HIDE DEF b
  <1>2. super \in 0 .. Len(b.objects)
    <2>0. TableOK(b)
      BY <1>1, TablesAre
    <2>1. Len(b.objects) \in Nat /\ 0 \in 0 .. Len(b.objects)
          /\ \A i \in 1 .. Len(b.objects) : i \in 0 .. Len(b.objects)
      BY <2>0 DEF TableOK
    <2>2. CASE schema.super = ""
      BY <2>1, <2>2
    <2>3. CASE schema.super # ""
      <3>1. b.array[schema.super] \in 1 .. Len(b.objects)
        BY <1>1, <2>0, <2>3 DEF TableOK
      <3> QED BY <2>1, <2>3, <3>1
    <2> QED BY <2>2, <2>3
  <1>3. LinkedFrom(t, schema) = Linked(b, schema, super)
    BY DEF LinkedFrom, b
  <1> HIDE DEF super
  <1>4. LET u == Linked(b, schema, super)
            at == b.array[schema.name]
        IN  /\ u \in Tables /\ u.array = b.array /\ Len(u.objects) = Len(b.objects)
            /\ at \in 1 .. Len(b.objects)
            /\ \A i \in 1 .. Len(b.objects) : i # at => u.objects[i] = b.objects[i]
            /\ u.objects[at].props = IF schema.own THEN schema.name ELSE b.objects[at].props
            /\ u.objects[at].super = super
    BY <1>1, <1>2, LinkedIs
  <1> QED BY <1>3, <1>4 DEF b, super

LEMMA StructGrows ==
  ASSUME NEW t \in Tables, NEW schema \in Structs
  PROVE  /\ RegisterStruct(t, schema) \in Tables
         /\ Grown(LinkedFrom(t, schema), RegisterStruct(t, schema))
  <1> DEFINE l == LinkedFrom(t, schema)
  <1>1. l \in Tables /\ TableOK(l)
    BY StructLinked, TablesAre
  <1>2. RegisterStruct(t, schema) =
          IF schema.own THEN WithUses(l, schema.uses)[Len(schema.uses)] ELSE l
    BY DEF RegisterStruct, LinkedFrom
  <1>3. schema.uses \in Seq(AllNames)
    <2>1. schema.uses \in Seq(ToSet(schema.uses)) /\ ToSet(schema.uses) \subseteq AllNames
      BY SchemasAre DEF AllNames
    <2> QED BY <2>1
  <1> HIDE DEF l
  <1>4. CASE schema.own
    BY <1>1, <1>2, <1>3, <1>4, WithUsesGrows DEF l
  <1>5. CASE ~schema.own
    BY <1>1, <1>2, <1>5, GrownSelf DEF l
  <1> QED BY <1>4, <1>5

\* Registering the next struct leaves the earlier ones as they are.
LEMMA StructRegistered ==
  ASSUME NEW t \in Tables, NEW k \in 1 .. Len(Schemas), Upto(t, k - 1)
  PROVE  Upto(RegisterStruct(t, Schemas[k]), k)
  <1> DEFINE schema == Schemas[k]
             b == RegisterSuper(Registered(t, schema.name, "class"), schema)
             l == LinkedFrom(t, schema)
             at == b.array[schema.name]
  <1>1. /\ k \in Nat /\ schema \in Structs /\ schema.name # ""
        /\ \A i \in 1 .. k - 1 : Schemas[i].name # schema.name
        /\ \A i \in 1 .. k : i = k \/ i \in 1 .. k - 1
        /\ k \in 1 .. k /\ \A i \in 1 .. k - 1 : i \in 1 .. k
    <2>1. Len(Schemas) \in Nat /\ k \in 1 .. Len(Schemas)
      BY SchemasAre
    <2>2. schema \in Structs
      BY <2>1, SchemasAre
    <2>3. schema.name # ""
      BY <2>2, SchemasAre
    <2>4. ASSUME NEW i \in 1 .. k - 1 PROVE Schemas[i].name # schema.name
      <3>1. i \in 1 .. Len(Schemas) /\ i # k
        BY <2>1
      <3> QED BY <2>1, <3>1, SchemasAre
    <2>5. /\ k \in Nat /\ k \in 1 .. k
          /\ \A i \in 1 .. k : i = k \/ i \in 1 .. k - 1
          /\ \A i \in 1 .. k - 1 : i \in 1 .. k
      BY <2>1
    <2> HIDE DEF schema
    <2> QED BY <2>2, <2>3, <2>4, <2>5
  <1> HIDE DEF schema
  <1>2. /\ b \in Tables /\ Grown(t, b) /\ schema.name \in DOMAIN b.array
        /\ schema.super # "" => schema.super \in DOMAIN b.array
    BY <1>1, BothGrow
  <1>3. /\ l.array = b.array
        /\ at \in 1 .. Len(b.objects)
        /\ \A i \in 1 .. Len(b.objects) : i # at => l.objects[i] = b.objects[i]
        /\ l.objects[at].props = IF schema.own THEN schema.name ELSE b.objects[at].props
        /\ l.objects[at].super = IF schema.super = "" THEN 0 ELSE b.array[schema.super]
    BY <1>1, StructLinked
  <1> HIDE DEF b, l
  <1>4. Upto(b, k - 1)
    BY <1>2, UptoGrows
  <1>5. b.objects[at].props = ""
    BY <1>1, <1>2, <1>4 DEF Upto
  <1>6. IsAt(l, schema)
    BY <1>2, <1>3, <1>5 DEF IsAt
  <1>7. \A n \in DOMAIN b.array : n # schema.name => l.objects[l.array[n]] = b.objects[b.array[n]]
    <2>1. TableOK(b)
      BY <1>2, TablesAre
    <2> QED BY <1>2, <1>3, <2>1 DEF TableOK
  <1>8. ASSUME NEW i \in 1 .. k - 1 PROVE IsAt(l, Schemas[i])
    <2>1. IsAt(b, Schemas[i]) /\ Schemas[i].name # schema.name
      BY <1>1, <1>4 DEF Upto
    <2> QED BY <2>1, <1>3, <1>7 DEF IsAt
  <1>9. ASSUME NEW n \in DOMAIN l.array, \A i \in 1 .. k : Schemas[i].name # n
        PROVE  l.objects[l.array[n]].props = ""
    <2>1. n # schema.name /\ \A i \in 1 .. k - 1 : Schemas[i].name # n
      BY <1>1, <1>9 DEF schema
    <2>2. b.objects[b.array[n]].props = ""
      BY <1>3, <1>4, <2>1 DEF Upto
    <2> QED BY <1>3, <1>7, <2>1, <2>2
  <1>10. Upto(l, k)
    BY <1>1, <1>6, <1>8, <1>9 DEF Upto, schema
  <1>11. Grown(l, RegisterStruct(t, schema))
    BY <1>1, StructGrows DEF l
  <1> QED BY <1>10, <1>11, UptoGrows DEF schema

Empty == [objects |-> <<>>, array |-> <<>>]

LEMMA EmptyTable == Empty \in Tables /\ Upto(Empty, 0)
  <1>1. DOMAIN Empty.array = {} /\ Len(Empty.objects) = 0
    BY DEF Empty
  <1>2. TableOK(Empty)
    <2>1. Empty.objects \in Seq(Entries)
      BY DEF Empty
    <2> QED BY <1>1, <2>1 DEF TableOK
  <1>3. Empty.array \in [{} -> Nat]
    <2>1. <<>> \in Seq(Nat) /\ Len(<<>>) = 0
      OBVIOUS
    <2>2. <<>> \in [1 .. 0 -> Nat] /\ 1 .. 0 = {}
      BY <2>1
    <2> QED BY <2>2 DEF Empty
  <1>4. Empty = [objects |-> Empty.objects, array |-> Empty.array]
    BY DEF Empty
  <1>7. Classes(Empty)
    BY <1>1 DEF Classes
  <1>5. Empty \in Tables
    BY <1>1, <1>2, <1>3, <1>4, <1>7, TablesAre
  <1>6. Upto(Empty, 0)
    BY <1>1 DEF Upto
  <1> QED BY <1>5, <1>6

\* Registering the whole file leaves every struct with what it says.
LEMMA DeclarationsAre == Declarations \in Tables /\ Upto(Declarations, Len(Schemas))
  <1> DEFINE n == Len(Schemas)
             F == [p \in Nat \X Tables |-> IF p[1] + 1 \in 1 .. n
                                           THEN RegisterStruct(p[2], Schemas[p[1] + 1]) ELSE p[2]]
             P(x) == x = [k \in 0 .. n |->
                            IF k = 0 THEN Empty
                            ELSE CHOOSE next \in {RegisterStruct(table, Schemas[k]) : table \in {x[k - 1]}} : TRUE]
  <1>1. n \in Nat /\ \A k \in 1 .. n : Schemas[k] \in Structs
    BY SchemasAre
  <1>2. F \in [Nat \X Tables -> Tables]
    <2>1. ASSUME NEW p \in Nat \X Tables
          PROVE  (IF p[1] + 1 \in 1 .. n THEN RegisterStruct(p[2], Schemas[p[1] + 1]) ELSE p[2]) \in Tables
      BY <1>1, StructGrows
    <2> QED BY <2>1
  <1>3. ASSUME NEW y, NEW schema
        PROVE  (CHOOSE next \in {RegisterStruct(table, schema) : table \in {y}} : TRUE) = RegisterStruct(y, schema)
    OBVIOUS
  <1> HIDE DEF n
  <1>4. PICK at \in [Nat -> Tables] : at[0] = Empty /\ \A k \in Nat : at[k + 1] = F[<<k, at[k]>>]
    <2> HIDE DEF F
    <2>1. \E at : Iterates(at, Tables, Empty, F)
      BY <1>2, EmptyTable, Recursion
    <2> QED BY <2>1 DEF Iterates
  <1>5. ASSUME NEW k \in 1 .. n PROVE at[k] = RegisterStruct(at[k - 1], Schemas[k])
    <2>1. k - 1 \in Nat /\ (k - 1) + 1 = k /\ at[k - 1] \in Tables
      BY <1>1, <1>4
    <2>2. at[k] = F[<<k - 1, at[k - 1]>>]
      BY <1>4, <2>1
    <2> QED BY <2>1, <2>2
  <1> DEFINE s == [k \in 0 .. n |-> at[k]]
             w == Declaring
  <1>6. P(s)
    <2>1. ASSUME NEW k \in 0 .. n
          PROVE  s[k] = IF k = 0 THEN Empty
                        ELSE CHOOSE next \in {RegisterStruct(table, Schemas[k]) : table \in {s[k - 1]}} : TRUE
      <3>1. k = 0 \/ (k \in 1 .. n /\ k - 1 \in 0 .. n)
        BY <1>1
      <3>2. CASE k = 0
        BY <1>4, <3>2
      <3>3. CASE k \in 1 .. n /\ k - 1 \in 0 .. n
        <4>1. s[k] = RegisterStruct(s[k - 1], Schemas[k]) /\ k # 0
          BY <1>5, <3>3
        <4> HIDE DEF s
        <4> QED BY <1>3, <4>1
      <3> QED BY <3>1, <3>2, <3>3
    <2> QED BY <2>1
  <1>7. w = CHOOSE x : P(x)
    BY DEF Declaring, n, Empty
  <1>8. P(w)
    <2> HIDE DEF s, w, P
    <2> QED BY <1>6, <1>7
  <1> HIDE DEF w
  <1>9. DOMAIN w = 0 .. n /\ w[0] = Empty /\ \A k \in 1 .. n : w[k] = RegisterStruct(w[k - 1], Schemas[k])
    <2>1. 0 \in 0 .. n /\ \A k \in 1 .. n : k \in 0 .. n /\ k # 0
      BY <1>1
    <2>2. DOMAIN w = 0 .. n /\ w[0] = Empty
      BY <1>8, <2>1
    <2>3. ASSUME NEW k \in 1 .. n PROVE w[k] = RegisterStruct(w[k - 1], Schemas[k])
      <3>1. w[k] = CHOOSE next \in {RegisterStruct(table, Schemas[k]) : table \in {w[k - 1]}} : TRUE
        BY <1>8, <2>1
      <3> QED BY <1>3, <3>1
    <2> QED BY <2>2, <2>3
  <1> DEFINE Wrongs == {k \in 0 .. n : ~(w[k] \in Tables /\ Upto(w[k], k))}
  <1>10. Wrongs = {}
    <2> HIDE DEF P
    <2> SUFFICES ASSUME Wrongs # {} PROVE FALSE
      OBVIOUS
    <2>1. PICK x \in Wrongs : \A y \in Wrongs : x <= y
      <3>1. Wrongs \in SUBSET Nat
        BY <1>1
      <3> HIDE DEF Wrongs
      <3> QED BY <3>1, LeastMember
    <2>2. w[0] \in Tables /\ Upto(w[0], 0)
      BY <1>9, EmptyTable
    <2>3. x # 0
      BY <2>2
    <2>4. x \in 1 .. n /\ x - 1 \in 0 .. n /\ ~(x <= x - 1)
      BY <1>1, <2>3
    <2>5. x - 1 \notin Wrongs
      <3> HIDE DEF Wrongs
      <3> QED BY <2>1, <2>4
    <2>6. w[x - 1] \in Tables /\ Upto(w[x - 1], x - 1)
      BY <2>4, <2>5
    <2>7. w[x] = RegisterStruct(w[x - 1], Schemas[x]) /\ Schemas[x] \in Structs
      BY <1>1, <1>9, <2>4
    <2>8. w[x] \in Tables
      BY <2>6, <2>7, StructGrows
    <2>9. Upto(w[x], x)
      BY <2>4, <2>6, <2>7, StructRegistered DEF n
    <2> QED BY <2>8, <2>9
  <1>11. n \in 0 .. n
    BY <1>1
  <1>12. w[n] \in Tables /\ Upto(w[n], n)
    <2> HIDE DEF P
    <2> QED BY <1>10, <1>11
  <1> QED BY <1>12 DEF w, n, Declarations

-----------------------------------------------------------------------------
(* The walk over a class and its supers.                                      *)

Declares(t) == TableOK(t) /\ \A i \in 1 .. Len(Schemas) : IsAt(t, Schemas[i])

LEMMA SchemaOfName ==
  ASSUME NEW name \in SchemaNames
  PROVE  /\ SchemaOf(name) \in Structs /\ SchemaOf(name).name = name
         /\ \E i \in 1 .. Len(Schemas) : SchemaOf(name) = Schemas[i]
         /\ SuperName[name] = SchemaOf(name).super
         /\ SuperName[name] \in SchemaNames \cup {""}
  <1>1. \E schema \in Structs : schema.name = name
    BY DEF SchemaNames
  <1>2. SchemaOf(name) \in Structs /\ SchemaOf(name).name = name
    BY <1>1 DEF SchemaOf
  <1>3. \E i \in 1 .. Len(Schemas) : SchemaOf(name) = Schemas[i]
    BY <1>2, SchemasAre DEF Structs
  <1>4. name # ""
    BY <1>2, SchemasAre
  <1>5. SuperName[name] = SchemaOf(name).super
    BY <1>4 DEF SuperName
  <1>6. SchemaOf(name).super \in SchemaNames \cup {""}
    BY <1>2, SchemasAre
  <1> QED BY <1>2, <1>3, <1>5, <1>6

LEMMA AncestryIs ==
  ASSUME NEW name \in SchemaNames \cup {""}
  PROVE  /\ Ancestry(name) \in [0 .. Len(Schemas) -> SchemaNames \cup {""}]
         /\ Ancestry(name)[0] = name
         /\ \A k \in 1 .. Len(Schemas) : Ancestry(name)[k] = SuperName[Ancestry(name)[k - 1]]
  <1> DEFINE D == SchemaNames \cup {""}
  <1>1. SuperName \in [D -> D]
    <2>1. ASSUME NEW x \in D PROVE (IF x = "" THEN "" ELSE SchemaOf(x).super) \in D
      <3>1. CASE x = ""
        BY <3>1
      <3>2. CASE x # ""
        <4>1. x \in SchemaNames
          BY <3>2
        <4>2. SchemaOf(x).super \in D
          BY <4>1, SchemaOfName
        <4> QED BY <3>2, <4>2
      <3> QED BY <3>1, <3>2
    <2> QED BY <2>1 DEF SuperName
  <1>2. Len(Schemas) \in Nat
    BY SchemasAre
  <1> DEFINE at == Ancestry(name)
  <1>3. at = CHOOSE g : Iterated(g, name, SuperName, Len(Schemas))
    BY DEF Ancestry, Iterated
  <1> HIDE DEF D, at
  <1>4. name \in D
    BY DEF D
  <1>5. Iterated(at, name, SuperName, Len(Schemas))
    BY <1>1, <1>2, <1>3, <1>4, Iteration
  <1>6. /\ at \in [0 .. Len(Schemas) -> D] /\ at[0] = name
        /\ \A k \in 1 .. Len(Schemas) : at[k] = SuperName[at[k - 1]]
    <2>1. Follows(at, D, name, SuperName, Len(Schemas))
      BY <1>1, <1>2, <1>4, <1>5, Iteration
    <2> QED BY <2>1 DEF Follows
  <1> QED BY <1>6 DEF D, at

LEMMA AncestrySteps ==
  ASSUME NEW name \in SchemaNames
  PROVE  /\ Ancestry(name) \in [0 .. Len(Schemas) -> SchemaNames \cup {""}]
         /\ Ancestry(name)[0] = name
         /\ name # ""
         /\ \A i \in 1 .. Len(Schemas) : Ancestry(name)[i] = SuperName[Ancestry(name)[i - 1]]
  <1>1. name # "" /\ name \in SchemaNames \cup {""}
    BY SchemaOfName, SchemasAre
  <1> QED BY <1>1, AncestryIs

LEMMA LineIs ==
  ASSUME NEW t, TableOK(t), NEW class \in 0 .. Len(t.objects)
  PROVE  LET n == Len(t.objects)
             at == Line(t.objects, class)
         IN  /\ at \in [0 .. n -> 0 .. n] /\ at[0] = class
             /\ \A k \in 1 .. n :
                  at[k] = IF at[k - 1] = 0 THEN 0 ELSE t.objects[at[k - 1]].super
  <1> DEFINE n == Len(t.objects)
             super == [c \in 0 .. n |-> IF c = 0 THEN 0 ELSE t.objects[c].super]
             at == Line(t.objects, class)
  <1>1. n \in Nat /\ \A i \in 1 .. n : t.objects[i].super \in 0 .. n
    BY DEF TableOK
  <1>2. super \in [0 .. n -> 0 .. n]
    <2>1. \A c \in 0 .. n : c = 0 \/ c \in 1 .. n
      BY <1>1
    <2> HIDE DEF n
    <2> QED BY <1>1, <2>1
  <1>3. at = CHOOSE g : Iterated(g, class, super, n)
    BY DEF Line, Iterated
  <1>4. class \in 0 .. n
    OBVIOUS
  <1> HIDE DEF n, super, at
  <1>7. Iterated(at, class, super, n)
    BY <1>1, <1>2, <1>3, <1>4, Iteration
  <1>5. /\ at \in [0 .. n -> 0 .. n] /\ at[0] = class
        /\ \A k \in 1 .. n : at[k] = super[at[k - 1]]
    <2>1. Follows(at, 0 .. n, class, super, n)
      BY <1>1, <1>2, <1>4, <1>7, Iteration
    <2> QED BY <2>1 DEF Follows
  <1>6. ASSUME NEW k \in 1 .. n PROVE at[k] = IF at[k - 1] = 0 THEN 0 ELSE t.objects[at[k - 1]].super
    <2>1. k - 1 \in 0 .. n
      BY <1>1
    <2>2. at[k - 1] \in 0 .. n
      BY <1>5, <2>1
    <2> QED BY <1>5, <2>2 DEF super
  <1> QED BY <1>5, <1>6 DEF n, at

LEMMA LineSteps ==
  ASSUME NEW t, TableOK(t), NEW class \in 0 .. Len(t.objects)
  PROVE  /\ Line(t.objects, class)[0] = class
         /\ \A i \in 1 .. Len(t.objects) :
              Line(t.objects, class)[i] =
                IF Line(t.objects, class)[i - 1] = 0 THEN 0
                ELSE t.objects[Line(t.objects, class)[i - 1]].super
  BY LineIs

\* Every struct has an object of its own.
LEMMA ObjectsSuffice ==
  ASSUME NEW t, Declares(t)
  PROVE  Len(Schemas) <= Len(t.objects)
  <1> DEFINE S == 1 .. Len(Schemas)
             T == 1 .. Len(t.objects)
             f == [i \in S |-> t.array[Schemas[i].name]]
  <1>0. TableOK(t) /\ \A i \in S : IsAt(t, Schemas[i])
    BY DEF Declares
  <1>1. Len(Schemas) \in Nat /\ Len(t.objects) \in Nat
    <2>1. Len(t.objects) \in Nat
      BY <1>0 DEF TableOK
    <2> QED BY <2>1, SchemasAre
  <1>2. IsFiniteSet(S) /\ Cardinality(S) = Len(Schemas) /\ IsFiniteSet(T) /\ Cardinality(T) = Len(t.objects)
    BY <1>1, CountingTo
  <1>3. \A i \in S : Schemas[i].name \in DOMAIN t.array
    BY DEF Declares, IsAt
  <1>4. \A i \in S : t.array[Schemas[i].name] \in T
    BY <1>3 DEF Declares, TableOK
  <1>5. \A i, j \in S : t.array[Schemas[i].name] = t.array[Schemas[j].name] => i = j
    BY <1>3, SchemasAre DEF Declares, TableOK
  <1> HIDE DEF S, T
  <1>6. f \in Injection(S, T)
    BY <1>4, <1>5 DEF Injection, IsInjective
  <1>7. Cardinality(S) <= Cardinality(T)
    BY <1>2, <1>6, FS_Injection
  <1> QED BY <1>2, <1>7

\* The walk over objects and the one over the file are in step.
LEMMA InStep ==
  ASSUME NEW t, Declares(t), NEW name \in SchemaNames, NEW k \in 0 .. Len(Schemas)
  PROVE  Line(t.objects, t.array[name])[k] =
           IF Ancestry(name)[k] = "" THEN 0 ELSE t.array[Ancestry(name)[k]]
  <1> DEFINE n == Len(Schemas)
             m == Len(t.objects)
             line == Line(t.objects, t.array[name])
             up == Ancestry(name)
             Wrong(i) == line[i] # (IF up[i] = "" THEN 0 ELSE t.array[up[i]])
             Wrongs == {i \in 0 .. n : Wrong(i)}
  <1>0. TableOK(t) /\ \A i \in 1 .. n : IsAt(t, Schemas[i])
    BY DEF Declares
  <1>1. n \in Nat /\ m \in Nat /\ n <= m
    <2>1. n \in Nat
      BY SchemasAre
    <2>2. m \in Nat
      BY <1>0 DEF TableOK
    <2>3. n <= m
      BY ObjectsSuffice
    <2> QED BY <2>1, <2>2, <2>3
  <1>2. /\ up \in [0 .. n -> SchemaNames \cup {""}] /\ up[0] = name /\ name # ""
        /\ \A i \in 1 .. n : up[i] = SuperName[up[i - 1]]
    BY AncestrySteps
  <1>3. \A x \in SchemaNames : IsAt(t, SchemaOf(x)) /\ SchemaOf(x).name = x
    BY <1>0, SchemaOfName
  <1>4. \A x \in SchemaNames : x \in DOMAIN t.array /\ t.array[x] \in 1 .. m
    <2> SUFFICES ASSUME NEW x \in SchemaNames PROVE x \in DOMAIN t.array /\ t.array[x] \in 1 .. m
      OBVIOUS
    <2>1. x \in DOMAIN t.array
      BY <1>3 DEF IsAt
    <2> QED BY <1>0, <2>1 DEF TableOK
  <1>5. t.array[name] \in 0 .. m /\ TableOK(t)
    <2>1. t.array[name] \in 1 .. m
      BY <1>4
    <2> HIDE DEF m
    <2> QED BY <1>0, <1>1, <2>1
  <1>6. /\ line[0] = t.array[name]
        /\ \A i \in 1 .. m : line[i] = IF line[i - 1] = 0 THEN 0 ELSE t.objects[line[i - 1]].super
    <2> QED BY <1>5, LineSteps
  <1>7. SuperName[""] = "" /\ \A x \in SchemaNames : SuperName[x] = SchemaOf(x).super
    BY SchemaOfName DEF SuperName
  <1> HIDE DEF n, m, line, up
  <1>8. Wrongs = {}
    <2> SUFFICES ASSUME Wrongs # {} PROVE FALSE
      OBVIOUS
    <2>1. PICK x \in Wrongs : \A y \in Wrongs : x <= y
      <3>1. Wrongs \in SUBSET Nat
        <4> HIDE DEF Wrong
        <4> QED BY <1>1
      <3> HIDE DEF Wrongs
      <3> QED BY <3>1, LeastMember
    <2>2. x # 0
      <3> SUFFICES ASSUME x = 0 PROVE FALSE
        OBVIOUS
      <3>1. 0 \in Wrongs
        BY <2>1
      <3>2. Wrong(0)
        <4> HIDE DEF Wrong
        <4> QED BY <3>1
      <3> QED BY <1>2, <1>6, <3>2
    <2>3. x \in 1 .. n /\ x \in 1 .. m /\ x - 1 \in 0 .. n /\ ~(x <= x - 1)
      <3> HIDE DEF Wrong
      <3> QED BY <1>1, <2>2
    <2>4. x - 1 \notin Wrongs
      <3> HIDE DEF Wrongs
      <3> QED BY <2>1, <2>3
    <2> DEFINE sub == up[x - 1]
    <2>5. line[x - 1] = (IF sub = "" THEN 0 ELSE t.array[sub]) /\ sub \in SchemaNames \cup {""}
      BY <1>2, <2>3, <2>4
    <2>6. up[x] = SuperName[sub]
      BY <1>2, <2>3
    <2>7. line[x] = IF line[x - 1] = 0 THEN 0 ELSE t.objects[line[x - 1]].super
      BY <1>6, <2>3
    <2>8. line[x] # (IF up[x] = "" THEN 0 ELSE t.array[up[x]])
      BY <2>1
    <2> HIDE DEF sub, Wrongs
    <2>9. CASE sub = ""
      BY <1>7, <2>5, <2>6, <2>7, <2>8, <2>9
    <2>10. CASE sub # ""
      <3>1. sub \in SchemaNames /\ line[x - 1] = t.array[sub] /\ t.array[sub] \in 1 .. m
        BY <1>4, <2>5, <2>10
      <3>2. t.array[sub] # 0
        BY <1>1, <3>1
      <3>3. line[x] = t.objects[t.array[sub]].super
        BY <2>7, <3>1, <3>2
      <3>4. t.objects[t.array[sub]].super = IF up[x] = "" THEN 0 ELSE t.array[up[x]]
        <4>1. IsAt(t, SchemaOf(sub)) /\ SchemaOf(sub).name = sub
          BY <1>3, <3>1
        <4>2. up[x] = SchemaOf(sub).super
          BY <1>7, <2>6, <3>1
        <4> QED BY <4>1, <4>2 DEF IsAt
      <3> QED BY <2>8, <3>3, <3>4
    <2> QED BY <2>9, <2>10
  <1> QED BY <1>8 DEF n, line, up

\* A line of supers ends: no class is its own ancestor.
LEMMA AncestryEnds ==
  ASSUME NEW name \in SchemaNames
  PROVE  Ancestry(name)[Len(Schemas)] = ""
  <1> DEFINE n == Len(Schemas)
             up == Ancestry(name)
  <1>1. PICK depth \in [SchemaNames -> 1 .. n] :
          \A schema \in Structs : schema.super # "" => depth[schema.super] < depth[schema.name]
    BY SchemaAssumption DEF SchemaAssumption
  <1>9. \A x \in SchemaNames : depth[x] \in 1 .. n
    BY <1>1
  <1>2. n \in Nat
    BY SchemasAre
  <1>3. /\ up \in [0 .. n -> SchemaNames \cup {""}] /\ up[0] = name /\ name # ""
        /\ \A i \in 1 .. n : up[i] = SuperName[up[i - 1]]
    BY AncestrySteps
  <1>4. /\ SuperName[""] = ""
        /\ \A x \in SchemaNames : SuperName[x] # "" =>
             SuperName[x] \in SchemaNames /\ depth[SuperName[x]] < depth[x]
    <2>1. SuperName[""] = ""
      BY DEF SuperName
    <2>2. ASSUME NEW x \in SchemaNames, SuperName[x] # ""
          PROVE  SuperName[x] \in SchemaNames /\ depth[SuperName[x]] < depth[x]
      BY <1>1, <2>2, SchemaOfName
    <2> QED BY <2>1, <2>2
  <1>11. \A d \in 1 .. n : d + 0 <= n /\ ~(d + n <= n)
    BY <1>2
  <1> HIDE DEF n, up
  <1> DEFINE Wrong(i) == up[i] # "" /\ ~(depth[up[i]] + i <= n)
             Wrongs == {i \in 0 .. n : Wrong(i)}
  <1>5. Wrongs = {}
    <2> SUFFICES ASSUME Wrongs # {} PROVE FALSE
      OBVIOUS
    <2>1. PICK x \in Wrongs : \A y \in Wrongs : x <= y
      <3>1. Wrongs \in SUBSET Nat
        <4> HIDE DEF Wrong
        <4> QED BY <1>2
      <3> HIDE DEF Wrongs
      <3> QED BY <3>1, LeastMember
    <2>2. x # 0
      <3> SUFFICES ASSUME x = 0 PROVE FALSE
        OBVIOUS
      <3>1. 0 \in Wrongs
        BY <2>1
      <3>2. Wrong(0)
        <4> HIDE DEF Wrong
        <4> QED BY <3>1
      <3>3. depth[up[0]] \in 1 .. n
        BY <1>3, <1>9
      <3>4. ~(depth[up[0]] + 0 <= n)
        BY <3>2
      <3> QED BY <1>11, <3>3, <3>4
    <2>3. x \in 1 .. n /\ x - 1 \in 0 .. n /\ ~(x <= x - 1)
      <3> HIDE DEF Wrong
      <3> QED BY <1>2, <2>2
    <2>4. x - 1 \notin Wrongs
      <3> HIDE DEF Wrongs
      <3> QED BY <2>1, <2>3
    <2>5. up[x] # "" /\ ~(depth[up[x]] + x <= n)
      BY <2>1
    <2>6. up[x] = SuperName[up[x - 1]] /\ up[x - 1] \in SchemaNames \cup {""}
      BY <1>3, <2>3
    <2>7. up[x - 1] # "" /\ up[x - 1] \in SchemaNames
      BY <1>4, <2>5, <2>6
    <2>8. depth[up[x - 1]] + (x - 1) <= n
      BY <2>3, <2>4, <2>7
    <2>9. depth[up[x]] < depth[up[x - 1]] /\ up[x] \in SchemaNames
      <3> HIDE DEF Wrongs, Wrong
      <3> QED BY <1>4, <2>5, <2>6, <2>7
    <2>10. depth[up[x]] \in Nat /\ depth[up[x - 1]] \in Nat /\ x \in Nat
      <3>1. depth[up[x]] \in 1 .. n /\ depth[up[x - 1]] \in 1 .. n
        BY <1>9, <2>7, <2>9
      <3> HIDE DEF Wrongs, Wrong
      <3> QED BY <1>2, <2>3, <3>1
    <2> DEFINE a == depth[up[x]]
               b == depth[up[x - 1]]
    <2>11. a \in Nat /\ b \in Nat /\ x \in Nat /\ n \in Nat /\ a < b /\ ~(a + x <= n) /\ b + (x - 1) <= n
      BY <1>2, <2>5, <2>8, <2>9, <2>10
    <2> HIDE DEF Wrongs, Wrong, a, b
    <2> QED BY <2>11
  <1>6. n \in 0 .. n
    BY <1>2
  <1>7. up[n] \in SchemaNames \cup {""}
    BY <1>3, <1>6
  <1>8. up[n] # "" => depth[up[n]] \in 1 .. n /\ depth[up[n]] + n <= n
    <2>1. ~Wrong(n)
      <3> HIDE DEF Wrong
      <3> QED BY <1>5, <1>6
    <2> QED BY <1>7, <1>9, <2>1
  <1>10. up[n] = ""
    <2> SUFFICES ASSUME up[n] # "" PROVE FALSE
      OBVIOUS
    <2> QED BY <1>8, <1>11
  <1> QED BY <1>10 DEF n, up

\* Behind the last super there is nothing more.
LEMMA LineEnds ==
  ASSUME NEW t, Declares(t), NEW name \in SchemaNames, NEW k \in Len(Schemas) .. Len(t.objects)
  PROVE  Line(t.objects, t.array[name])[k] = 0
  <1> DEFINE n == Len(Schemas)
             m == Len(t.objects)
             line == Line(t.objects, t.array[name])
             Wrong(i) == line[i] # 0
             Wrongs == {i \in n .. m : Wrong(i)}
  <1>0. TableOK(t) /\ \A i \in 1 .. n : IsAt(t, Schemas[i])
    BY DEF Declares
  <1>1. n \in Nat /\ m \in Nat
    <2>1. m \in Nat
      BY <1>0 DEF TableOK
    <2> QED BY <2>1, SchemasAre
  <1>2. line[n] = 0
    <2>1. n \in 0 .. n
      BY <1>1
    <2> HIDE DEF n
    <2>2. Line(t.objects, t.array[name])[n] =
            IF Ancestry(name)[n] = "" THEN 0 ELSE t.array[Ancestry(name)[n]]
      BY <2>1, InStep DEF n
    <2> QED BY <2>2, AncestryEnds DEF n
  <1>3. t.array[name] \in 0 .. m
    <2>1. PICK i \in 1 .. n : Schemas[i].name = name
      BY SchemaOfName
    <2>2. t.array[name] \in 1 .. m
      BY <1>0, <2>1 DEF IsAt, TableOK
    <2> HIDE DEF m
    <2> QED BY <1>1, <2>2
  <1>4. \A i \in 1 .. m : line[i] = IF line[i - 1] = 0 THEN 0 ELSE t.objects[line[i - 1]].super
    <2>1. t.array[name] \in 0 .. Len(t.objects) /\ TableOK(t)
      BY <1>0, <1>3
    <2> HIDE DEF n
    <2> QED BY <2>1, LineSteps
  <1> HIDE DEF n, m, line
  <1>5. Wrongs = {}
    <2> SUFFICES ASSUME Wrongs # {} PROVE FALSE
      OBVIOUS
    <2>1. PICK x \in Wrongs : \A y \in Wrongs : x <= y
      <3>1. Wrongs \in SUBSET Nat
        <4> HIDE DEF Wrong
        <4> QED BY <1>1
      <3> HIDE DEF Wrongs
      <3> QED BY <3>1, LeastMember
    <2>2. x # n /\ x \in n .. m
      BY <1>2
    <2>3. x \in 1 .. m /\ x - 1 \in n .. m /\ ~(x <= x - 1)
      <3> HIDE DEF Wrongs
      <3> QED BY <1>1, <2>2
    <2>4. x - 1 \notin Wrongs
      <3> HIDE DEF Wrongs
      <3> QED BY <2>1, <2>3
    <2>5. line[x - 1] = 0 /\ line[x] # 0
      BY <2>1, <2>3, <2>4
    <2> QED BY <1>4, <2>3, <2>5
  <1>6. k \in n .. m
    BY DEF n, m
  <1> QED BY <1>5, <1>6 DEF line

\* The property lists that the walk over a class goes through are those the file
\* declares for it.
LEMMA WalkIsDeclared ==
  ASSUME NEW t, Declares(t), NEW name \in SchemaNames
  PROVE  Lists(t.objects, t.array[name]) = Declared(name)
  <1> DEFINE n == Len(Schemas)
             m == Len(t.objects)
             line == Line(t.objects, t.array[name])
             up == Ancestry(name)
             L == {i \in 0 .. m : line[i] # 0}
             U == {i \in 0 .. n : up[i] # ""}
  <1>0. TableOK(t) /\ \A i \in 1 .. n : IsAt(t, Schemas[i])
    BY DEF Declares
  <1>1. n \in Nat /\ m \in Nat /\ n <= m
    <2>1. m \in Nat
      BY <1>0 DEF TableOK
    <2> QED BY <2>1, SchemasAre, ObjectsSuffice
  <1>2. \A i \in 0 .. n : line[i] = IF up[i] = "" THEN 0 ELSE t.array[up[i]]
    BY InStep
  <1>3. \A i \in n .. m : line[i] = 0
    BY LineEnds
  <1>4. up \in [0 .. n -> SchemaNames \cup {""}]
    BY AncestryIs
  <1>5. \A x \in SchemaNames : IsAt(t, SchemaOf(x)) /\ SchemaOf(x).name = x
    BY <1>0, SchemaOfName
  <1>6. \A x \in SchemaNames : t.array[x] \in 1 .. m
    <2> SUFFICES ASSUME NEW x \in SchemaNames PROVE t.array[x] \in 1 .. m
      OBVIOUS
    <2>1. x \in DOMAIN t.array
      BY <1>5 DEF IsAt
    <2> QED BY <1>0, <2>1 DEF TableOK
  <1>7. \A i \in 1 .. m : i # 0
    BY <1>1
  <1>8. Lists(t.objects, t.array[name]) = [i \in L |-> t.objects[line[i]].props]
    BY DEF Lists
  <1>9. Declared(name) = [i \in U |-> IF SchemaOf(up[i]).own THEN up[i] ELSE ""]
    BY DEF Declared
  <1>10. \A i \in 0 .. m : i \in 0 .. n \/ i \in n .. m
    BY <1>1
  <1>11. \A i \in 0 .. n : i \in 0 .. m
    BY <1>1
  <1> HIDE DEF n, m, line, up
  <1>12. ASSUME NEW i \in U
         PROVE  /\ i \in L /\ up[i] \in SchemaNames
                /\ t.objects[line[i]].props = IF SchemaOf(up[i]).own THEN up[i] ELSE ""
    <2>1. i \in 0 .. n /\ up[i] # "" /\ up[i] \in SchemaNames
      BY <1>4
    <2>2. line[i] = t.array[up[i]] /\ line[i] \in 1 .. m
      BY <1>2, <1>6, <2>1
    <2>3. i \in L
      BY <1>7, <1>11, <2>1, <2>2
    <2>4. IsAt(t, SchemaOf(up[i])) /\ SchemaOf(up[i]).name = up[i]
      BY <1>5, <2>1
    <2> QED BY <2>1, <2>2, <2>3, <2>4 DEF IsAt
  <1>13. ASSUME NEW i \in L PROVE i \in U
    <2>1. i \in 0 .. m /\ line[i] # 0
      OBVIOUS
    <2>2. i \in 0 .. n
      BY <1>3, <1>10, <2>1
    <2>3. up[i] # ""
      BY <1>2, <2>1, <2>2
    <2> QED BY <2>2, <2>3
  <1>14. L = U
    <2> HIDE DEF L, U
    <2> QED BY <1>12, <1>13
  <1> HIDE DEF L, U
  <1> QED BY <1>8, <1>9, <1>12, <1>14

-----------------------------------------------------------------------------
(* The table survives the packages.                                           *)

Blanks(t) == \A n \in DOMAIN t.array : t.objects[t.array[n]].props = ""

\* The inductive invariant: the whole file was registered, or nothing of it.
ZenInv == TableOK(Known) /\ (Declares(Known) \/ Blanks(Known))

LEMMA ZenGrows == ASSUME ZenInv, Grown(Known, Known') PROVE ZenInv'
  <1>1. TableOK(Known')
    BY DEF Grown
  <1>2. CASE Declares(Known)
    <2>1. ASSUME NEW i \in 1 .. Len(Schemas) PROVE IsAt(Known', Schemas[i])
      <3>1. IsAt(Known, Schemas[i])
        BY <1>2 DEF Declares
      <3> QED BY <3>1 DEF IsAt, Grown
    <2>2. Declares(Known')
      BY <1>1, <2>1 DEF Declares
    <2> QED BY <1>1, <2>2 DEF ZenInv
  <1>3. CASE Blanks(Known)
    <2>1. ASSUME NEW n \in DOMAIN Known'.array PROVE Known'.objects[Known'.array[n]].props = ""
      <3>1. CASE n \in DOMAIN Known.array
        BY <1>3, <3>1 DEF Blanks, Grown
      <3>2. CASE n \notin DOMAIN Known.array
        BY <3>2 DEF Grown
      <3> QED BY <3>1, <3>2
    <2>2. Blanks(Known')
      BY <2>1 DEF Blanks
    <2> QED BY <1>1, <2>2 DEF ZenInv
  <1> QED BY <1>2, <1>3 DEF ZenInv

LEMMA ZenStays == ASSUME ZenInv, UNCHANGED <<Objects, ObjectArray>> PROVE ZenInv'
  BY DEF ZenInv, Known

LEMMA EmptyZen == ASSUME Known = Empty PROVE ZenInv
  <1>1. TableOK(Empty)
    BY EmptyTable, TablesAre
  <1>2. DOMAIN Known.array = {}
    BY DEF Empty
  <1>3. Blanks(Known)
    BY <1>2 DEF Blanks
  <1> QED BY <1>1, <1>3 DEF ZenInv

LEMMA RegisterInv ==
  ASSUME NEW whole \in BOOLEAN, RegisterTypesFromUsmap(whole)
  PROVE  ZenInv'
  <1>1. CASE whole
    <2>1. Declarations \in Tables /\ Upto(Declarations, Len(Schemas))
      BY DeclarationsAre
    <2>2. Declarations = [objects |-> Declarations.objects, array |-> Declarations.array]
          /\ TableOK(Declarations)
      BY <2>1, TablesAre
    <2>3. Known' = Declarations
      BY <1>1, <2>2 DEF RegisterTypesFromUsmap, Known
    <2>4. Declares(Declarations)
      BY <2>1, <2>2 DEF Upto, Declares
    <2> QED BY <2>2, <2>3, <2>4 DEF ZenInv
  <1>2. CASE ~whole
    <2>1. Known' = Empty
      BY <1>2 DEF RegisterTypesFromUsmap, Known, Empty
    <2>2. TableOK(Empty) /\ Blanks(Empty)
      BY EmptyTable, TablesAre DEF Blanks, Empty
    <2> QED BY <2>1, <2>2 DEF ZenInv
  <1> QED BY <1>1, <1>2

LEMMA ResolvedGrows ==
  ASSUME NEW t, TableOK(t), NEW ref, NEW kind \in {"class", "object"}
  PROVE  Grown(t, Resolved(t, ref, kind))
  BY RegisteredGrows, GrownSelf DEF Resolved

LEMMA CreateInv == ASSUME ZenInv, NEW export, CreateExport(export) PROVE ZenInv'
  <1> DEFINE third == Resolved(Known, export.template, "object")
             class == Resolved(third, export.class, "class")
             table == Resolved(class, export.outer, "object")
  <1>1. CASE UNCHANGED <<Objects, ObjectArray>>
    BY <1>1, ZenStays
  <1>2. CASE Objects' = table.objects /\ ObjectArray' = table.array
    <2>0. TableOK(Known)
      BY DEF ZenInv
    <2>1. Grown(Known, third)
      BY <2>0, ResolvedGrows
    <2> HIDE DEF third
    <2>2. TableOK(third)
      BY <2>1 DEF Grown
    <2>3. Grown(third, class)
      BY <2>2, ResolvedGrows
    <2> HIDE DEF class
    <2>4. TableOK(class)
      BY <2>3 DEF Grown
    <2>5. Grown(class, table)
      BY <2>4, ResolvedGrows
    <2> HIDE DEF table
    <2>6. Grown(Known, table)
      BY <2>1, <2>3, <2>5, GrownTrans
    <2>7. Known'.objects = table.objects /\ Known'.array = table.array
      BY <1>2 DEF Known
    <2>8. Grown(Known, Known')
      BY <2>6, <2>7 DEF Grown, TableOK
    <2> QED BY <2>8, ZenGrows
  <1> QED BY <1>1, <1>2 DEF CreateExport

LEMMA ZenNext == ASSUME ZenInv, [Next]_vars PROVE ZenInv'
  <1>1. CASE BeforeThePages \/ OnThePages \/ Revert \/ UNCHANGED vars
    BY <1>1, ZenStays DEF BeforeThePages, OnThePages, Revert, vars, zenVars
  <1>2. CASE MountAsync
    BY <1>2, RegisterInv DEF MountAsync
  <1>3. CASE LoadPackage
    BY <1>3, ZenStays DEF LoadPackage, MakePackage
  <1>4. CASE End
    <2>1. Known' = Empty
      BY <1>4 DEF End, ZenReset, Known, Empty
    <2>2. TableOK(Empty) /\ Blanks(Empty)
      BY EmptyTable, TablesAre DEF Blanks, Empty
    <2> QED BY <2>1, <2>2 DEF ZenInv
  <1>5. CASE ProcessExports
    <2>1. CASE CreateExport(Export)
      BY <2>1, CreateInv
    <2>2. CASE TrySerializeExport(Export)
      BY <2>2, ZenStays DEF TrySerializeExport
    <2> QED BY <1>5, <2>1, <2>2 DEF ProcessExports
  <1>6. CASE PatchFortnite \/ PatchFortniteFails
    BY <1>6, ZenStays DEF PatchFortnite, PatchFortniteFails
  <1> QED BY <1>1, <1>2, <1>3, <1>4, <1>5, <1>6
          DEF Next, Converting, Crash, CloseSaturn, LoadPackageDies, ProcessExportsDies, GetPropertyDies

\* For every mappings file whose structs have their supers in it and every sequence
\* of packages read: a class that has properties of its own is walked through the lists the
\* file declares for it and its supers (Mappings.cpp:291-330, ZenPackageReader.cpp:127-198).
THEOREM ClassesStayDeclared == Spec => []ClassesAreDeclared
  <1>1. Init => ZenInv
    <2> SUFFICES ASSUME Init PROVE ZenInv
      OBVIOUS
    <2>1. Known = Empty
      BY DEF Init, ZenInit, Known, Empty
    <2> QED BY <2>1, EmptyZen
  <1>2. ZenInv /\ [Next]_vars => ZenInv'
    BY ZenNext
  <1>3. ZenInv => ClassesAreDeclared
    <2> SUFFICES ASSUME ZenInv, NEW i \in DOMAIN Schemas,
                        Schemas[i].name \in DOMAIN ObjectArray,
                        Objects[ObjectArray[Schemas[i].name]].props # ""
                 PROVE  Lists(Objects, ObjectArray[Schemas[i].name]) = Declared(Schemas[i].name)
      BY DEF ClassesAreDeclared
    <2>1. Known.objects = Objects /\ Known.array = ObjectArray
      BY DEF Known
    <2>2. ~Blanks(Known)
      BY <2>1 DEF Blanks
    <2>3. Declares(Known)
      BY <2>2 DEF ZenInv
    <2>4. Schemas[i].name \in SchemaNames
      BY SchemasAre
    <2>5. Lists(Known.objects, Known.array[Schemas[i].name]) = Declared(Schemas[i].name)
      BY <2>3, <2>4, WalkIsDeclared
    <2> QED BY <2>1, <2>5
  <1> QED BY <1>1, <1>2, <1>3, PTL DEF Spec

-----------------------------------------------------------------------------
(* The types of the pages: what is listed are ids of skins.                   *)

SkinIds == {Registry[i].id : i \in Skins}

\* A dialog is open for a skin.
PageInv ==
  /\ CatalogTypeOK
  /\ ItemsToDisplay \in Seq(SkinIds) /\ container \in Seq(SkinIds)
  /\ modals # {} => currentId \in SkinIds

LEMMA SkinIdsAre == SkinIds \subseteq Ids
  BY DEF SkinIds, Skins, Ids, Assets

LEMMA NothingListed == <<>> \in Seq(SkinIds)
  OBVIOUS

\* Every place up to the number of a set's assets is the place of one.
LEMMA RanksAreAll ==
  ASSUME NEW I \in SUBSET Places, NEW n \in 1 .. Cardinality(I)
  PROVE  \E i \in I : Rank(I, i) = n
  <1> DEFINE c == Cardinality(I)
             f == [i \in I |-> Rank(I, i)]
  <1>1. I \in SUBSET Nat /\ IsFiniteSet(I) /\ c \in Nat
    <2>1. I \in SUBSET Nat
      BY PlacesAre
    <2>2. 0 \in Nat
      OBVIOUS
    <2> QED BY <2>1, <2>2, RankRange
  <1>2. \A i \in I : Rank(I, i) \in 1 .. c
    <2> SUFFICES ASSUME NEW i \in I PROVE Rank(I, i) \in 1 .. c
      OBVIOUS
    <2>1. Rank(I, i) \in Nat /\ Rank(I, i) <= Cardinality(I) /\ Rank(I, i) >= 1
      BY <1>1, RankRange
    <2> QED BY <1>1, <2>1
  <1> HIDE DEF c
  <1>3. f \in [I -> 1 .. c]
    BY <1>2
  <1>4. f \in Injection(I, 1 .. c)
    <2>1. \A i, j \in I : f[i] = f[j] => i = j
      BY RankTells
    <2> HIDE DEF f
    <2> QED BY <1>3, <2>1 DEF Injection, IsInjective
  <1>5. IsFiniteSet(1 .. c) /\ Cardinality(1 .. c) = c
    <2>1. 1 \in Int /\ c \in Int /\ ~(1 > c) => c - 1 + 1 = c
      BY <1>1
    <2> QED BY <1>1, <2>1, FS_Interval
  <1>6. f \in Surjection(I, 1 .. c)
    <2> HIDE DEF f
    <2> QED BY <1>1, <1>4, <1>5, FS_Injection DEF c
  <1>7. \E i \in I : f[i] = n
    <2> HIDE DEF f
    <2> QED BY <1>6 DEF Surjection, c
  <1> QED BY <1>7

LEMMA IdsAreSkins ==
  ASSUME NEW I \in SUBSET Skins
  PROVE  IdsOf(I) \in Seq(SkinIds) /\ (IdsOf(I) # <<>> => I # {})
  <1>1. I \in SUBSET Places /\ Cardinality(I) \in Nat
    <2>1. Skins \in SUBSET Places
      BY DEF Skins, Places
    <2>2. 0 \in Nat
      OBVIOUS
    <2> QED BY <2>1, <2>2, RankRange
  <1>2. ASSUME NEW n \in 1 .. Cardinality(I)
        PROVE  Registry[CHOOSE i \in I : Rank(I, i) = n].id \in SkinIds
    <2>1. (CHOOSE i \in I : Rank(I, i) = n) \in I
      BY <1>1, RanksAreAll
    <2> QED BY <2>1 DEF SkinIds
  <1>3. IdsOf(I) \in [1 .. Cardinality(I) -> SkinIds]
    BY <1>2 DEF IdsOf
  <1>4. IdsOf(I) \in Seq(SkinIds) /\ Len(IdsOf(I)) = Cardinality(I)
    BY <1>1, <1>3
  <1>5. ASSUME IdsOf(I) # <<>> PROVE I # {}
    <2>1. Cardinality(I) # 0
      BY <1>4, <1>5
    <2> QED BY <2>1, FS_EmptySet
  <1> QED BY <1>4, <1>5

LEMMA ItemsAreSkins ==
  ASSUME NEW t, NEW answer, NEW filter
  PROVE  GetItems(t, answer) \in Seq(SkinIds) /\ Searched(filter, answer) \in Seq(SkinIds)
  <1>1. FirstOf(Named(SkinsFrom(t), answer), PageSize) \in SUBSET Skins
    BY DEF FirstOf, Named, SkinsFrom
  <1>2. {i \in Named(Skins, answer) : Registry[i].id \in Matches[filter]} \in SUBSET Skins
    BY DEF Named
  <1> QED BY <1>1, <1>2, IdsAreSkins DEF GetItems, Searched

\* A page with items is one of as many pages as there are assets.
LEMMA PagesEnd ==
  ASSUME NEW t \in Nat, NEW answer, GetItems(t, answer) # <<>>
  PROVE  t <= Len(Registry)
  <1> DEFINE I == FirstOf(Named(SkinsFrom(t), answer), PageSize)
  <1>1. I \in SUBSET Skins /\ I \in SUBSET SkinsFrom(t)
    BY DEF FirstOf, Named, SkinsFrom
  <1>2. PICK i \in I : TRUE
    <2> HIDE DEF I
    <2>1. IdsOf(I) # <<>>
      BY DEF GetItems, I
    <2> QED BY <1>1, <2>1, IdsAreSkins
  <1>3. i \in Skins /\ Rank(Skins, i) > t * PageSize
    BY <1>1, <1>2 DEF SkinsFrom
  <1> HIDE DEF I
  <1>4. /\ Places = 1 .. Len(Registry) /\ Len(Registry) \in Nat /\ PageSize \in Nat \ {0}
        /\ Skins \in SUBSET Places /\ i \in Nat
    BY <1>3, PlacesAre DEF Skins, Places
  <1>5. Rank(Skins, i) \in Nat /\ Rank(Skins, i) <= Cardinality(Skins) /\ Cardinality(Skins) \in Nat
    BY <1>4, RankRange
  <1>6. Cardinality(Skins) <= Len(Registry)
    <2>1. IsFiniteSet(1 .. Len(Registry)) /\ Cardinality(1 .. Len(Registry)) = Len(Registry)
      <3>1. 1 \in Int /\ Len(Registry) \in Int /\ Len(Registry) - 1 + 1 = Len(Registry)
            /\ (1 > Len(Registry) => Len(Registry) = 0)
        BY <1>4
      <3> QED BY <3>1, FS_Interval
    <2> QED BY <1>4, <2>1, FS_Subset
  <1>7. t <= t * PageSize /\ t * PageSize \in Nat
    <2>1. t * PageSize >= t * 1
      BY <1>4
    <2> QED BY <1>4, <2>1
  <1> QED BY <1>3, <1>4, <1>5, <1>6, <1>7

\* A card's skin is found again by its id.
LEMMA ItemIsFound ==
  ASSUME NEW id \in SkinIds
  PROVE  \E i \in DOMAIN Registry : GetItemById(id) = Registry[i]
  <1> DEFINE Hits == {i \in Skins : Registry[i].id = id}
  <1>1. Hits \in SUBSET Nat /\ Hits # {} /\ Hits \in SUBSET (DOMAIN Registry)
    BY PlacesAre DEF SkinIds, Skins, Places
  <1> HIDE DEF Hits
  <1>2. \E i \in Hits : \A j \in Hits : i <= j
    BY <1>1, LeastMember
  <1>3. (CHOOSE i \in Hits : \A j \in Hits : i <= j) \in Hits
    BY <1>2
  <1> QED BY <1>1, <1>3 DEF GetItemById, Hits

LEMMA PageStays == ASSUME PageInv, UNCHANGED catalogVars PROVE PageInv'
  BY DEF PageInv, CatalogTypeOK, catalogVars

LEMMA PageResets == ASSUME CatalogReset PROVE PageInv'
  <1>1. <<>> \in Seq(SkinIds) /\ <<>> \in Seq(Ids)
    OBVIOUS
  <1>2. 0 \in 0 .. Len(Registry)
    BY PlacesAre
  <1> QED BY <1>1, <1>2 DEF CatalogReset, PageInv, CatalogTypeOK

LEMMA SeqIds == ASSUME NEW s \in Seq(SkinIds) PROVE s \in Seq(Ids)
  BY SkinIdsAre

LEMMA LeavePage ==
  ASSUME PageInv, ShowHome \/ ShowCosmetics \/ SendToHome
  PROVE  PageInv'
  <1>1. 0 \in 0 .. Len(Registry)
    BY PlacesAre
  <1> QED BY <1>1, NothingListed, SeqIds
          DEF PageInv, CatalogTypeOK, ShowHome, ShowCosmetics, SendToHome, SendToURL

LEMMA SkinsPage == ASSUME PageInv, SendToSkins PROVE PageInv'
  <1>1. GetItems(Tab, catalogue') \in Seq(SkinIds)
    BY ItemsAreSkins
  <1> QED BY <1>1, NothingListed, SeqIds
          DEF PageInv, CatalogTypeOK, SendToSkins, SendToURL, OnGenerateSkins

LEMMA OnLoadPage == ASSUME PageInv, SessionInv, OnLoad PROVE PageInv'
  BY KeyIsThere, NothingListed, SeqIds DEF PageInv, CatalogTypeOK, OnLoad, Idle, OnDisplayItems

LEMMA DisplayPage ==
  ASSUME PageInv, SessionInv, stage = "Home", NEW items \in Seq(SkinIds),
         NEW from \in {"page"} \cup Filters, Display(items, from), Tab' \in 0 .. Len(Registry)
  PROVE  PageInv'
  <1>1. container' = items /\ ItemsToDisplay' = <<>>
    BY KeyIsThere DEF Display, OnDisplayItems
  <1>2. items \in Seq(Ids) /\ <<>> \in Seq(Ids) /\ <<>> \in Seq(SkinIds)
    BY NothingListed, SeqIds
  <1>3. /\ source' = from /\ early' = ~loaded
        /\ UNCHANGED <<page, loaded, modals, currentId, hiding, catalogue>>
    BY DEF Display
  <1> QED BY <1>1, <1>2, <1>3 DEF PageInv, CatalogTypeOK

LEMMA NextPage == ASSUME PageInv, SessionInv, OnNextPage PROVE PageInv'
  <1> DEFINE items == GetItems(Tab + 1, catalogue)
  <1>0. stage = "Home" /\ Tab \in Nat /\ Tab + 1 \in Nat /\ Len(Registry) \in Nat
    BY PlacesAre DEF OnNextPage, Clickable, Idle, PageInv, CatalogTypeOK
  <1>1. CASE items # <<>> /\ Tab' = Tab + 1 /\ Display(items, "page")
    <2>1. Tab + 1 <= Len(Registry)
      BY <1>0, <1>1, PagesEnd
    <2>2. Tab' \in 0 .. Len(Registry)
      BY <1>0, <1>1, <2>1
    <2>3. items \in Seq(SkinIds)
      BY ItemsAreSkins
    <2> HIDE DEF items
    <2> QED BY <1>0, <1>1, <2>2, <2>3, DisplayPage
  <1>2. CASE /\ ItemsToDisplay' = <<>> /\ early' = (early \/ ~loaded)
             /\ UNCHANGED <<document, Tab, catalogue, source>>
    BY <1>2, NothingListed, SeqIds DEF PageInv, CatalogTypeOK
  <1> QED BY <1>1, <1>2 DEF OnNextPage

LEMMA PreviousPage == ASSUME PageInv, SessionInv, OnPreviousPage PROVE PageInv'
  <1>1. /\ stage = "Home" /\ Tab > 0 /\ Tab' = Tab - 1
        /\ Display(GetItems(Tab - 1, catalogue), "page")
    BY DEF OnPreviousPage, Clickable, Idle
  <1>2. Tab' \in 0 .. Len(Registry)
    <2>1. Tab \in 0 .. Len(Registry) /\ Len(Registry) \in Nat
      BY PlacesAre DEF PageInv, CatalogTypeOK
    <2> QED BY <1>1, <2>1
  <1>3. GetItems(Tab - 1, catalogue) \in Seq(SkinIds)
    BY ItemsAreSkins
  <1> QED BY <1>1, <1>2, <1>3, DisplayPage

LEMMA SearchPage ==
  ASSUME PageInv, SessionInv, NEW filter \in Filters \cup {""}, OnSearch(filter)
  PROVE  PageInv'
  <1>1. FilterItems(filter, Tab) \in Seq(SkinIds)
    BY ItemsAreSkins DEF FilterItems
  <1>2. (IF filter = "" THEN "page" ELSE filter) \in {"page"} \cup Filters
    OBVIOUS
  <1>3. Tab' \in 0 .. Len(Registry)
    BY DEF OnSearch, PageInv, CatalogTypeOK
  <1>4. stage = "Home" /\ Display(FilterItems(filter, Tab), IF filter = "" THEN "page" ELSE filter)
    BY DEF OnSearch, Clickable, Idle
  <1> QED BY <1>1, <1>2, <1>3, <1>4, DisplayPage

LEMMA CardPage ==
  ASSUME PageInv, Cancel \/ HideModal \/ \E id \in Ids : OnClick(id)
  PROVE  PageInv'
  <1>1. CASE Cancel \/ HideModal
    BY <1>1 DEF PageInv, CatalogTypeOK, Cancel, HideModal
  <1>2. ASSUME NEW id \in Ids, OnClick(id) PROVE PageInv'
    <2>1. id \in SkinIds
      <3>1. id \in {container[i] : i \in DOMAIN container} /\ container \in Seq(SkinIds)
        BY <1>2 DEF OnClick, PageInv
      <3> QED BY <3>1
    <2>2. currentId' = id /\ modals' \subseteq {"apply", "revert"}
      BY <1>2 DEF OnClick
    <2>3. UNCHANGED <<page, loaded, container, hiding, Tab, ItemsToDisplay, catalogue, source, early>>
      BY <1>2 DEF OnClick
    <2> QED BY <2>1, <2>2, <2>3 DEF PageInv, CatalogTypeOK
  <1> QED BY <1>1, <1>2

LEMMA PagesKeepPage == ASSUME PageInv, SessionInv, CatalogStep PROVE PageInv'
  BY LeavePage, SkinsPage, OnLoadPage, NextPage, PreviousPage, SearchPage, CardPage DEF CatalogStep

LEMMA AddKeepsPage == ASSUME PageInv, AddLoadoutItem PROVE PageInv'
  BY DEF PageInv, CatalogTypeOK, AddLoadoutItem

-----------------------------------------------------------------------------
(* The table at a click: kinds by name, and the whole mappings file.          *)

\* Names that a package refers to as templates or outers.
ObjectNames == UNION {ScriptRefs(p, "template") \cup ScriptRefs(p, "outer") : p \in DOMAIN Packages}

Kinds(t) == \A n \in DOMAIN t.array : t.objects[t.array[n]].kind = "class" \/ n \in ObjectNames

\* The archives are mounted, and what the start registered is there.
Mounted ==
  stage \in {"Key", "Bind", "Home", "Convert"} \/ (stage \in Saving /\ after # "Dependencies")

TableInv ==
  /\ Kinds(Known)
  /\ mappingsFile = "whole" /\ Mounted => Declares(Known)

LEMMA RegisteredKinds ==
  ASSUME NEW t, TableOK(t), Kinds(t), NEW name, NEW kind \in {"class", "object"},
         kind = "class" \/ name \in ObjectNames
  PROVE  Kinds(Registered(t, name, kind))
  <1> DEFINE new == [kind |-> kind, props |-> "", super |-> 0]
             u == Added(t, name, kind)
             n == Len(t.objects)
  <1>1. CASE name \in DOMAIN t.array
    BY <1>1 DEF Registered
  <1>2. CASE name \notin DOMAIN t.array
    <2>1. u.objects = Append(t.objects, new) /\ new.kind = kind /\ new \in Entries
          /\ u.array = [x \in DOMAIN t.array \cup {name} |-> IF x = name THEN n + 1 ELSE t.array[x]]
      BY DEF Added, Entries
    <2>2. t.objects \in Seq(Entries) /\ n \in Nat /\ \A x \in DOMAIN t.array : t.array[x] \in 1 .. n
      BY DEF TableOK
    <2> HIDE DEF new, u
    <2>3. u.objects[n + 1] = new /\ \A i \in 1 .. n : u.objects[i] = t.objects[i]
      BY <2>1, <2>2
    <2>4. DOMAIN u.array = DOMAIN t.array \cup {name} /\ u.array[name] = n + 1
          /\ \A x \in DOMAIN t.array : u.array[x] = t.array[x]
      BY <1>2, <2>1
    <2> HIDE DEF n
    <2>5. Kinds(u)
      <3> SUFFICES ASSUME NEW x \in DOMAIN u.array
                   PROVE  u.objects[u.array[x]].kind = "class" \/ x \in ObjectNames
        BY DEF Kinds
      <3>1. CASE x = name
        BY <2>1, <2>3, <2>4, <3>1
      <3>2. CASE x \in DOMAIN t.array
        BY <2>2, <2>3, <2>4, <3>2 DEF Kinds
      <3> QED BY <2>4, <3>1, <3>2
    <2> QED BY <1>2, <2>5 DEF Registered, u
  <1> QED BY <1>1, <1>2

LEMMA ResolvedKinds ==
  ASSUME NEW t, TableOK(t), Kinds(t), NEW ref, NEW kind \in {"class", "object"},
         kind = "class" \/ (IsScript(ref) => ref \in ObjectNames)
  PROVE  /\ TableOK(Resolved(t, ref, kind)) /\ Kinds(Resolved(t, ref, kind))
         /\ Grown(t, Resolved(t, ref, kind))
         /\ IsScript(ref) => ref \in DOMAIN Resolved(t, ref, kind).array
  <1>1. CASE IsScript(ref)
    <2>1. Resolved(t, ref, kind) = Registered(t, ref, kind)
      BY <1>1 DEF Resolved
    <2>2. Kinds(Registered(t, ref, kind))
      BY <1>1, RegisteredKinds
    <2>3. Grown(t, Registered(t, ref, kind)) /\ ref \in DOMAIN Registered(t, ref, kind).array
      BY RegisteredGrows
    <2> QED BY <2>1, <2>2, <2>3 DEF Grown
  <1>2. CASE ~IsScript(ref)
    BY <1>2, GrownSelf DEF Resolved
  <1> QED BY <1>1, <1>2

LEMMA EmptyKinds == Kinds(Empty)
  <1>1. DOMAIN Empty.array = {}
    BY DEF Empty
  <1> QED BY <1>1 DEF Kinds

LEMMA DeclaredKinds == Kinds(Declarations) /\ Declares(Declarations)
  <1>1. Declarations \in Tables /\ Upto(Declarations, Len(Schemas))
    BY DeclarationsAre
  <1>2. TableOK(Declarations) /\ Classes(Declarations)
    BY <1>1, TablesAre
  <1>3. Kinds(Declarations)
    BY <1>2 DEF Kinds, Classes, TableOK
  <1>4. Declares(Declarations)
    BY <1>1, <1>2 DEF Upto, Declares
  <1> QED BY <1>3, <1>4

LEMMA DeclaresGrows == ASSUME NEW t, NEW u, Declares(t), Grown(t, u) PROVE Declares(u)
  <1>1. TableOK(u)
    BY DEF Grown
  <1>2. ASSUME NEW i \in 1 .. Len(Schemas) PROVE IsAt(u, Schemas[i])
    <2>1. IsAt(t, Schemas[i])
      BY DEF Declares
    <2> QED BY <2>1 DEF IsAt, Grown
  <1> QED BY <1>1, <1>2 DEF Declares

\* Nothing of the start and of the key page mounts archives or changes what was mounted.
LEMMA MountedBefore ==
  ASSUME SessionInv, StartStep \/ SaveStep \/ KeyStep \/ Outside, Mounted'
  PROVE  Mounted /\ mappingsFile' = mappingsFile
  BY DEF StartStep, SaveStep, KeyStep, Outside, Keep, OpenDownload, NoDownload, Downloaded,
         DownloadFails, LoadDLL, LoadDLLExits, FetchFails, MappingsThere, OpenMappings,
         NoMappings, CloseMappings, DecompressThrows, Goto, SaveOpen, SaveWrite, KeyRefused,
         KeyFound, SetHWID, SetHWIDFails, Launch, LaunchRefused, RemoveFile, OtherMachineBinds,
         Mounted, Saving, SessionInv, SessionTypeOK, Die, Forget, Record, Accept, Save, Outdated

LEMMA TableStays ==
  ASSUME TableInv, UNCHANGED <<Objects, ObjectArray>>, Mounted' => Mounted,
         Mounted' => mappingsFile' = mappingsFile
  PROVE  TableInv'
  <1>1. Known' = Known
    BY DEF Known
  <1>2. Kinds(Known)' = Kinds(Known) /\ Declares(Known)' = Declares(Known)
    BY <1>1 DEF Kinds, Declares, TableOK, IsAt
  <1> QED BY <1>2 DEF TableInv

-----------------------------------------------------------------------------
(* A click: where the reader is in the package's bundle, and what it has made. *)

Full == Packages[Skin].bundle
At == Len(Full) - Len(bundle)
Item(i) == Packages[Skin].exports[i]
Commands(path) == [command : {"Create", "Serialize"}, index : DOMAIN Packages[path].exports]

ClickedInv == Skin \in DOMAIN Packages /\ OodleLoaded /\ modals # {} /\ Skin = GetItemById(currentId).path

\* What is left of the bundle is its end.
BundleInv ==
  /\ bundle \in Seq(Commands(Skin)) /\ Full \in Seq(Commands(Skin)) /\ At \in 0 .. Len(Full)
  /\ \A j \in 1 .. Len(bundle) : bundle[j] = Full[At + j]

\* An entry that gives its export a class.
Creates(entry) ==
  entry.command = "Create" /\ Item(entry.index).template # "null" /\ IsScript(Item(entry.index).class)

\* An export that was created as an object of a script's class is of that class.
MadeInv ==
  /\ Exports \in [DOMAIN Packages[Skin].exports -> [class : Nat, read : {"no", "right", "wrong"}]]
  /\ firstExport \in {0} \cup DOMAIN Exports
  /\ \A i \in DOMAIN Exports : Exports[i].class # 0 =>
       Item(i).class \in DOMAIN ObjectArray /\ Exports[i].class = ObjectArray[Item(i).class]
  /\ \A j \in 1 .. At : Creates(Full[j]) => Exports[Full[j].index].class # 0

\* A well-formed package is read right, up to where the reader is.
ReadInv ==
  /\ \A j \in Serializes(Skin) : j <= At => Exports[Full[j].index].read = "right"
  /\ \A j \in Serializes(Skin) : j > At => aligned
  /\ firstExport = IF Definition(Skin) <= At THEN Full[Definition(Skin)].index ELSE 0

ConvertInv ==
  /\ aligned \in BOOLEAN
  /\ stage = "Convert" =>
       ClickedInv /\ BundleInv /\ MadeInv /\ (mappingsFile = "whole" /\ WellFormed(Skin) => ReadInv)
  /\ stage # "Convert" => Exports = <<>> /\ firstExport = 0

\* The bundle of a package.
LEMMA BundleIs ==
  ASSUME NEW path \in DOMAIN Packages
  PROVE  /\ Packages[path].bundle \in Seq(Commands(path))
         /\ DOMAIN Packages[path].bundle = 1 .. Len(Packages[path].bundle)
         /\ Len(Packages[path].bundle) \in Nat
         /\ DOMAIN Packages[path].exports = 1 .. Len(Packages[path].exports)
         /\ Len(Packages[path].exports) \in Nat
         /\ \A k \in Serializes(path) :
              \E j \in 1 .. k - 1 : Packages[path].bundle[j] =
                [command |-> "Create", index |-> Packages[path].bundle[k].index]
  <1> DEFINE exports == Packages[path].exports
             bundled == Packages[path].bundle
  <1>1. /\ exports \in Seq(ToSet(exports))
        /\ bundled \in Seq([command : {"Create", "Serialize"}, index : DOMAIN exports])
        /\ \A i \in DOMAIN bundled : bundled[i].command = "Serialize" =>
             \E j \in 1 .. i - 1 : bundled[j] = [command |-> "Create", index |-> bundled[i].index]
    BY ZenAssumption DEF ZenAssumption
  <1>2. DOMAIN exports = 1 .. Len(exports) /\ Len(exports) \in Nat
    <2> HIDE DEF exports
    <2> QED BY <1>1
  <1>3. DOMAIN bundled = 1 .. Len(bundled) /\ Len(bundled) \in Nat
    <2> HIDE DEF bundled
    <2> QED BY <1>1
  <1>4. bundled \in Seq(Commands(path))
    BY <1>1 DEF Commands
  <1>5. \A k \in Serializes(path) :
              \E j \in 1 .. k - 1 : bundled[j] = [command |-> "Create", index |-> bundled[k].index]
    BY <1>1 DEF Serializes
  <1> QED BY <1>2, <1>3, <1>4, <1>5

\* The first of the entries that serialize.
LEMMA DefinitionIs ==
  ASSUME NEW path \in DOMAIN Packages, Serializes(path) # {}
  PROVE  /\ Definition(path) \in Serializes(path)
         /\ \A j \in Serializes(path) : Definition(path) <= j
  <1>1. Serializes(path) \in SUBSET Nat
    BY BundleIs DEF Serializes
  <1>2. \E k \in Serializes(path) : \A j \in Serializes(path) : k <= j
    BY <1>1, LeastMember
  <1> QED BY <1>2 DEF Definition

\* Taking the next entry.
LEMMA Taken ==
  ASSUME BundleInv, bundle # <<>>, bundle' = Tail(bundle), Skin' = Skin
  PROVE  /\ BundleInv' /\ At' = At + 1 /\ At \in Nat /\ At + 1 \in 1 .. Len(Full)
         /\ Head(bundle) = Full[At + 1] /\ Head(bundle) \in Commands(Skin)
  <1>1. /\ bundle \in Seq(Commands(Skin)) /\ Full \in Seq(Commands(Skin)) /\ At \in 0 .. Len(Full)
        /\ \A j \in 1 .. Len(bundle) : bundle[j] = Full[At + j]
    BY DEF BundleInv
  <1>2. Full' = Full /\ Commands(Skin)' = Commands(Skin)
    BY DEF Full, Commands
  <1> HIDE DEF Full
  <1>3. Len(bundle) \in Nat \ {0} /\ Len(Full) \in Nat
    BY <1>1
  <1>4. /\ bundle' \in Seq(Commands(Skin)) /\ Len(bundle') = Len(bundle) - 1
        /\ \A j \in 1 .. Len(bundle') : bundle'[j] = bundle[j + 1]
        /\ Head(bundle) = bundle[1] /\ Head(bundle) \in Commands(Skin)
    BY <1>1, <1>3
  <1>5. At = Len(Full) - Len(bundle) /\ At' = Len(Full) - Len(bundle')
    BY <1>2 DEF At
  <1>6. At' = At + 1 /\ At + 1 \in 1 .. Len(Full) /\ At \in Nat
    BY <1>1, <1>3, <1>4, <1>5
  <1>7. Head(bundle) = Full[At + 1]
    BY <1>1, <1>3, <1>4
  <1>8. ASSUME NEW j \in 1 .. Len(bundle') PROVE bundle'[j] = Full[At' + j]
    <2>1. j + 1 \in 1 .. Len(bundle) /\ At + (j + 1) = At' + j
      BY <1>3, <1>4, <1>6
    <2> QED BY <1>1, <1>4, <2>1
  <1>9. At' \in 0 .. Len(Full)
    BY <1>3, <1>6
  <1> QED BY <1>1, <1>2, <1>4, <1>6, <1>7, <1>8, <1>9 DEF BundleInv

LEMMA RestOfBundle ==
  ASSUME BundleInv, NEW k \in 1 .. Len(Full), k > At
  PROVE  bundle # <<>>
  <1>1. bundle \in Seq(Commands(Skin)) /\ Full \in Seq(Commands(Skin)) /\ At = Len(Full) - Len(bundle)
    BY DEF BundleInv, At
  <1> HIDE DEF Full, At
  <1>2. Len(bundle) # 0
    BY <1>1
  <1> QED BY <1>1, <1>2

LEMMA LoadPackageClick ==
  ASSUME PageInv, LoadPackage
  PROVE  ConvertInv'
  <1>1. /\ stage' = "Convert" /\ Skin' \in DOMAIN Packages /\ OodleLoaded' /\ modals' # {}
        /\ currentId' = currentId /\ Skin' = GetItemById(currentId).path
        /\ bundle' = Packages[Skin'].bundle
        /\ Exports' = [i \in DOMAIN Packages[Skin'].exports |-> [class |-> 0, read |-> "no"]]
        /\ aligned' = TRUE /\ firstExport' = 0
    BY DEF LoadPackage, AddLoadoutItem, MakePackage
  <1>2. ClickedInv'
    BY <1>1 DEF ClickedInv, GetItemById
  <1>3. /\ bundle' \in Seq(Commands(Skin')) /\ Len(bundle') \in Nat
        /\ DOMAIN Packages[Skin'].bundle = 1 .. Len(bundle')
    BY <1>1, BundleIs
  <1>4. Full' = bundle' /\ Commands(Skin)' = Commands(Skin')
    BY <1>1 DEF Full, Commands
  <1>5. At' = 0
    <2>1. At' = Len(bundle') - Len(bundle')
      BY <1>4 DEF At
    <2> QED BY <1>3, <2>1
  <1>6. BundleInv'
    <2>1. \A j \in 1 .. Len(bundle') : bundle'[j] = bundle'[0 + j]
      BY <1>3
    <2> QED BY <1>3, <1>4, <1>5, <2>1 DEF BundleInv
  <1>7. MadeInv'
    <2>1. Exports' \in [DOMAIN Packages[Skin'].exports -> [class : Nat, read : {"no", "right", "wrong"}]]
      BY <1>1
    <2>2. \A i \in DOMAIN Exports' : Exports'[i].class = 0
      BY <1>1
    <2> QED BY <1>1, <1>5, <2>1, <2>2 DEF MadeInv
  <1>8. ASSUME WellFormed(Skin') PROVE ReadInv'
    <2>1. Serializes(Skin') # {} /\ Serializes(Skin') \in SUBSET (1 .. Len(bundle'))
      BY <1>1, <1>3, <1>8 DEF WellFormed, Serializes
    <2>2. Definition(Skin') \in 1 .. Len(bundle')
      BY <1>1, <2>1, DefinitionIs
    <2>3. ~(Definition(Skin') <= 0) /\ \A j \in Serializes(Skin') : ~(j <= 0)
      BY <1>3, <2>1, <2>2
    <2> QED BY <1>1, <1>5, <2>3 DEF ReadInv, Serializes, Definition, Full
  <1> QED BY <1>1, <1>2, <1>6, <1>7, <1>8 DEF ConvertInv, WellFormed, Serializes, Definition, Entry, ScriptRefs

LEMMA SamePackage ==
  ASSUME Skin' = Skin
  PROVE  /\ Full' = Full /\ (WellFormed(Skin)' <=> WellFormed(Skin))
         /\ Serializes(Skin)' = Serializes(Skin) /\ Definition(Skin)' = Definition(Skin)
         /\ \A i : Item(i)' = Item(i)
  <1>1. Full' = Full /\ \A i : Item(i)' = Item(i)
    BY DEF Full, Item
  <1>2. Serializes(Skin)' = Serializes(Skin)
    BY DEF Serializes
  <1>3. Definition(Skin)' = Definition(Skin)
    BY <1>2 DEF Definition
  <1>4. WellFormed(Skin)' <=> WellFormed(Skin)
    BY DEF WellFormed, Serializes, Definition, Entry, ScriptRefs
  <1> QED BY <1>1, <1>2, <1>3, <1>4

\* The table after an export's template, class and outer.
LEMMA CreatedTable ==
  ASSUME TableOK(Known), Kinds(Known), Skin \in DOMAIN Packages,
         NEW i \in DOMAIN Packages[Skin].exports
  PROVE  LET export == Packages[Skin].exports[i]
             third == Resolved(Known, export.template, "object")
             class == Resolved(third, export.class, "class")
             table == Resolved(class, export.outer, "object")
         IN  /\ TableOK(third) /\ Kinds(third)
             /\ TableOK(table) /\ Kinds(table) /\ Grown(Known, table)
             /\ IsScript(export.class) => export.class \in DOMAIN table.array
  <1> DEFINE export == Packages[Skin].exports[i]
             third == Resolved(Known, export.template, "object")
             class == Resolved(third, export.class, "class")
             table == Resolved(class, export.outer, "object")
  <1>1. /\ IsScript(export.template) => export.template \in ObjectNames
        /\ IsScript(export.outer) => export.outer \in ObjectNames
    BY DEF ObjectNames, ScriptRefs
  <1> HIDE DEF export
  <1>2. TableOK(third) /\ Kinds(third) /\ Grown(Known, third)
    BY <1>1, ResolvedKinds
  <1> HIDE DEF third
  <1>3. /\ TableOK(class) /\ Kinds(class) /\ Grown(third, class)
        /\ IsScript(export.class) => export.class \in DOMAIN class.array
    BY <1>2, ResolvedKinds
  <1> HIDE DEF class
  <1>4. TableOK(table) /\ Kinds(table) /\ Grown(class, table)
    BY <1>1, <1>3, ResolvedKinds
  <1> HIDE DEF table
  <1>5. Grown(Known, table)
    BY <1>2, <1>3, <1>4, GrownTrans
  <1>6. IsScript(export.class) => export.class \in DOMAIN table.array
    BY <1>3, <1>4 DEF Grown
  <1> QED BY <1>2, <1>4, <1>5, <1>6 DEF export, third, class, table

\* The table at a step that changes it.
LEMMA TableGrows ==
  ASSUME TableInv, NEW table, Kinds(table), Grown(Known, table),
         Objects' = table.objects, ObjectArray' = table.array,
         Mounted' => Mounted, mappingsFile' = mappingsFile
  PROVE  TableInv'
  <1>1. Known'.objects = table.objects /\ Known'.array = table.array
    BY DEF Known
  <1>2. Kinds(Known)'
    BY <1>1 DEF Kinds
  <1>3. ASSUME Declares(Known) PROVE Declares(Known)'
    <2>1. Declares(table)
      BY <1>3, DeclaresGrows
    <2> QED BY <1>1, <2>1 DEF Declares, TableOK, IsAt
  <1> QED BY <1>2, <1>3 DEF TableInv

LEMMA SerializedIsThere ==
  ASSUME Skin \in DOMAIN Packages,
         Exports \in [DOMAIN Packages[Skin].exports -> [class : Nat, read : {"no", "right", "wrong"}]],
         NEW j \in Serializes(Skin)
  PROVE  Full[j].index \in DOMAIN Exports
  <1>1. Full \in Seq(Commands(Skin)) /\ j \in DOMAIN Full
    BY BundleIs DEF Serializes, Full
  <1>2. DOMAIN Exports = DOMAIN Packages[Skin].exports
    OBVIOUS
  <1> HIDE DEF Full
  <1>3. Full[j] \in Commands(Skin)
    BY <1>1
  <1>4. Full[j].index \in DOMAIN Packages[Skin].exports
    BY <1>3 DEF Commands
  <1> QED BY <1>2, <1>4

LEMMA CreateRead ==
  ASSUME BundleInv, ReadInv, Skin \in DOMAIN Packages, bundle # <<>>, Skin' = Skin,
         Head(bundle).command = "Create", bundle' = Tail(bundle),
         UNCHANGED <<aligned, firstExport>>,
         \A j \in DOMAIN Exports : Exports'[j].read = Exports[j].read,
         Exports \in [DOMAIN Packages[Skin].exports -> [class : Nat, read : {"no", "right", "wrong"}]],
         WellFormed(Skin)
  PROVE  ReadInv'
  <1>1. /\ At' = At + 1 /\ At \in Nat /\ At + 1 \in 1 .. Len(Full) /\ Full[At + 1].command = "Create"
    BY Taken
  <1>2. At + 1 \notin Serializes(Skin)
    BY <1>1 DEF Serializes, Full
  <1>3. Definition(Skin) \in Serializes(Skin) /\ Serializes(Skin) \in SUBSET Nat
    <2>1. Serializes(Skin) # {}
      BY DEF WellFormed
    <2>2. Serializes(Skin) \in SUBSET Nat
      BY BundleIs DEF Serializes
    <2> QED BY <2>1, <2>2, DefinitionIs
  <1>4. \A j \in Serializes(Skin) : (j <= At + 1 <=> j <= At) /\ (j > At + 1 => j > At)
    BY <1>1, <1>2, <1>3
  <1>5. \A j \in Serializes(Skin) : Full[j].index \in DOMAIN Exports
    BY SerializedIsThere
  <1>6. Full' = Full /\ Serializes(Skin)' = Serializes(Skin) /\ Definition(Skin)' = Definition(Skin)
    BY SamePackage
  <1> HIDE DEF Full, At
  <1>7. \A j \in Serializes(Skin) : j <= At + 1 => Exports'[Full[j].index].read = "right"
    BY <1>4, <1>5 DEF ReadInv
  <1>8. \A j \in Serializes(Skin) : j > At + 1 => aligned'
    BY <1>4 DEF ReadInv
  <1>9. firstExport' = IF Definition(Skin) <= At + 1 THEN Full[Definition(Skin)].index ELSE 0
    BY <1>3, <1>4 DEF ReadInv
  <1> QED BY <1>1, <1>6, <1>7, <1>8, <1>9 DEF ReadInv

LEMMA ProcessesHere ==
  ASSUME ConvertInv, ProcessExports
  PROVE  /\ stage = "Convert" /\ stage' = "Convert" /\ Skin' = Skin /\ bundle # <<>>
         /\ ClickedInv /\ ClickedInv' /\ BundleInv /\ MadeInv
         /\ mappingsFile = "whole" /\ WellFormed(Skin) => ReadInv
         /\ mappingsFile' = mappingsFile /\ after' = after
         /\ Head(bundle).index \in DOMAIN Packages[Skin].exports
         /\ Export = Item(Head(bundle).index)
  <1>1. /\ stage = "Convert" /\ stage' = "Convert" /\ Skin' = Skin /\ bundle # <<>>
        /\ ClickedInv /\ BundleInv /\ MadeInv
        /\ mappingsFile = "whole" /\ WellFormed(Skin) => ReadInv
        /\ mappingsFile' = mappingsFile /\ after' = after /\ OodleLoaded' = OodleLoaded
        /\ modals' = modals /\ currentId' = currentId
    BY DEF ConvertInv, ProcessExports, sessionVars, catalogVars
  <1>2. ClickedInv'
    BY <1>1 DEF ClickedInv, GetItemById
  <1>3. Head(bundle).index \in DOMAIN Packages[Skin].exports
    <2>1. bundle \in Seq(Commands(Skin))
      BY <1>1 DEF BundleInv
    <2>2. Head(bundle) \in Commands(Skin)
      BY <1>1, <2>1
    <2> QED BY <2>2 DEF Commands
  <1>4. Export = Item(Head(bundle).index)
    BY DEF Export, Item
  <1> QED BY <1>1, <1>2, <1>3, <1>4

LEMMA IndexIsThere ==
  ASSUME BundleInv, NEW j \in 1 .. At
  PROVE  Full[j].index \in DOMAIN Packages[Skin].exports
  <1>1. Full \in Seq(Commands(Skin)) /\ At \in 0 .. Len(Full)
    BY DEF BundleInv
  <1> HIDE DEF Full, At
  <1>2. Full[j] \in Commands(Skin)
    BY <1>1
  <1> QED BY <1>2 DEF Commands

LEMMA CreateMade ==
  ASSUME BundleInv, MadeInv, bundle # <<>>, Skin' = Skin, Skin \in DOMAIN Packages,
         TableOK(Known), Kinds(Known), NEW i, i = Head(bundle).index,
         i \in DOMAIN Packages[Skin].exports, CreateExport(Item(i))
  PROVE  MadeInv'
  <1> DEFINE export == Item(i)
             third == Resolved(Known, export.template, "object")
             class == Resolved(third, export.class, "class")
             table == Resolved(class, export.outer, "object")
             made == IF IsScript(export.class) THEN table.array[export.class] ELSE 0
  <1>1. /\ TableOK(table) /\ Grown(Known, table)
        /\ IsScript(export.class) => export.class \in DOMAIN table.array
    BY CreatedTable DEF Item
  <1>2. /\ Exports \in [DOMAIN Packages[Skin].exports -> [class : Nat, read : {"no", "right", "wrong"}]]
        /\ firstExport \in {0} \cup DOMAIN Exports
        /\ \A x \in DOMAIN Exports : Exports[x].class # 0 =>
             Item(x).class \in DOMAIN ObjectArray /\ Exports[x].class = ObjectArray[Item(x).class]
        /\ \A j \in 1 .. At : Creates(Full[j]) => Exports[Full[j].index].class # 0
    BY DEF MadeInv
  <1>3. /\ firstExport' = firstExport /\ bundle' = Tail(bundle)
        /\ \/ /\ export.template = "null"
              /\ UNCHANGED <<Objects, ObjectArray, Exports>>
           \/ /\ Objects' = table.objects /\ ObjectArray' = table.array
              /\ Exports' = [Exports EXCEPT ![i] = [class |-> made, read |-> Exports[i].read]]
    BY DEF CreateExport
  <1>4. At' = At + 1 /\ At \in Nat /\ Head(bundle) = Full[At + 1] /\ Full[At + 1].index = i
    BY <1>3, Taken
  <1>5. Full' = Full /\ \A x : Item(x)' = Item(x)
    BY SamePackage
  <1>6. \A entry : Creates(entry)' <=> Creates(entry)
    BY <1>5 DEF Creates
  <1> HIDE DEF Full, At
  <1>7. \A j \in 1 .. At + 1 : j \in 1 .. At \/ j = At + 1
    BY <1>4
  <1>8. Known.array = ObjectArray
    BY DEF Known
  <1>9. CASE export.template = "null" /\ UNCHANGED <<Objects, ObjectArray, Exports>>
    <2>1. ~Creates(Full[At + 1])
      BY <1>4, <1>9 DEF Creates
    <2> HIDE DEF export
    <2>2. \A j \in 1 .. At + 1 : Creates(Full[j]) => Exports'[Full[j].index].class # 0
      BY <1>2, <1>7, <1>9, <2>1
    <2> QED BY <1>2, <1>3, <1>4, <1>5, <1>6, <1>9, <2>2 DEF MadeInv
  <1>10. CASE /\ Objects' = table.objects /\ ObjectArray' = table.array
              /\ Exports' = [Exports EXCEPT ![i] = [class |-> made, read |-> Exports[i].read]]
    <2>1. IsScript(export.class) => made \in Nat /\ made # 0
      <3>1. \A n \in DOMAIN table.array : table.array[n] \in 1 .. Len(table.objects)
        BY <1>1 DEF TableOK
      <3> HIDE DEF table
      <3>2. IsScript(export.class) => made \in 1 .. Len(table.objects)
        BY <1>1, <3>1
      <3> QED BY <3>2
    <2>2. ~IsScript(export.class) => made = 0
      OBVIOUS
    <2>3. IsScript(export.class) => export.class \in DOMAIN ObjectArray' /\ made = ObjectArray'[export.class]
      BY <1>1, <1>10
    <2>4. \A n \in DOMAIN ObjectArray : n \in DOMAIN ObjectArray' /\ ObjectArray'[n] = ObjectArray[n]
      BY <1>1, <1>8, <1>10 DEF Grown
    <2>5. Creates(Full[At + 1]) => IsScript(export.class)
      BY <1>4 DEF Creates
    <2>6. export = Item(i)
      OBVIOUS
    <2> HIDE DEF export, table, made
    <2>7. made \in Nat
      BY <2>1, <2>2
    <2>8. /\ Exports' \in [DOMAIN Packages[Skin].exports -> [class : Nat, read : {"no", "right", "wrong"}]]
          /\ DOMAIN Exports' = DOMAIN Exports /\ i \in DOMAIN Exports /\ Exports'[i].class = made
          /\ \A x \in DOMAIN Exports : x # i => Exports'[x] = Exports[x]
      BY <1>2, <1>10, <2>7
    <2>9. ASSUME NEW x \in DOMAIN Exports', Exports'[x].class # 0
          PROVE  Item(x).class \in DOMAIN ObjectArray' /\ Exports'[x].class = ObjectArray'[Item(x).class]
      <3>1. CASE x = i
        BY <2>2, <2>3, <2>6, <2>8, <2>9, <3>1
      <3>2. CASE x # i
        BY <1>2, <2>4, <2>8, <2>9, <3>2
      <3> QED BY <3>1, <3>2
    <2>10. ASSUME NEW j \in 1 .. At + 1, Creates(Full[j])
           PROVE  Exports'[Full[j].index].class # 0
      <3>1. CASE Full[j].index = i
        <4>1. IsScript(export.class)
          BY <2>6, <2>10, <3>1 DEF Creates
        <4> QED BY <2>1, <2>8, <3>1, <4>1
      <3>2. CASE Full[j].index # i
        <4>1. j \in 1 .. At
          BY <1>4, <1>7, <3>2
        <4>2. Exports[Full[j].index].class # 0
          BY <1>2, <2>10, <4>1
        <4>3. Full[j].index \in DOMAIN Exports
          BY <1>2, <1>4, <4>1, IndexIsThere
        <4>4. Exports'[Full[j].index] = Exports[Full[j].index]
          BY <2>8, <3>2, <4>3
        <4> QED BY <4>2, <4>4
      <3> QED BY <3>1, <3>2
    <2> QED BY <1>2, <1>3, <1>4, <1>5, <1>6, <2>8, <2>9, <2>10 DEF MadeInv
  <1> QED BY <1>3, <1>9, <1>10

LEMMA CreateStep ==
  ASSUME ZenInv, TableInv, ConvertInv, ProcessExports, CreateExport(Export)
  PROVE  TableInv' /\ ConvertInv'
  <1> DEFINE i == Head(bundle).index
  <1>1. /\ stage = "Convert" /\ stage' = "Convert" /\ Skin' = Skin /\ bundle # <<>>
        /\ ClickedInv' /\ BundleInv /\ MadeInv
        /\ mappingsFile = "whole" /\ WellFormed(Skin) => ReadInv
        /\ mappingsFile' = mappingsFile /\ after' = after
        /\ i \in DOMAIN Packages[Skin].exports /\ Export = Item(i)
        /\ Skin \in DOMAIN Packages
    BY ProcessesHere DEF ClickedInv
  <1>2. TableOK(Known) /\ Kinds(Known)
    BY DEF ZenInv, TableInv
  <1>3. CreateExport(Item(i))
    BY <1>1
  <1>4. /\ Head(bundle).command = "Create" /\ bundle' = Tail(bundle)
        /\ UNCHANGED <<aligned, firstExport>>
    BY DEF CreateExport
  <1> HIDE DEF i
  <1>5. MadeInv'
    BY <1>1, <1>2, <1>3, CreateMade DEF i
  <1>6. BundleInv'
    BY <1>1, <1>4, Taken
  <1>7. ASSUME mappingsFile = "whole", WellFormed(Skin) PROVE ReadInv'
    <2>1. ReadInv
      BY <1>1, <1>7
    <2>2. Exports \in [DOMAIN Packages[Skin].exports -> [class : Nat, read : {"no", "right", "wrong"}]]
      BY <1>1 DEF MadeInv
    <2>3. \A j \in DOMAIN Exports : Exports'[j].read = Exports[j].read
      <3>1. CASE Exports' = Exports
        BY <3>1
      <3>2. CASE Exports' # Exports
        <4>1. PICK c : Exports' = [Exports EXCEPT ![i] = [class |-> c, read |-> Exports[i].read]]
          BY <1>3, <3>2 DEF CreateExport, i
        <4> QED BY <1>1, <2>2, <4>1
      <3> QED BY <3>1, <3>2
    <2> QED BY <1>1, <1>4, <1>7, <2>1, <2>2, <2>3, CreateRead
  <1>8. WellFormed(Skin)' <=> WellFormed(Skin)
    BY <1>1, SamePackage
  <1>9. ConvertInv'
    BY <1>1, <1>4, <1>5, <1>6, <1>7, <1>8 DEF ConvertInv
  <1>10. TableInv'
    <2> DEFINE third == Resolved(Known, Item(i).template, "object")
               class == Resolved(third, Item(i).class, "class")
               table == Resolved(class, Item(i).outer, "object")
    <2>1. Mounted' => Mounted
      BY <1>1 DEF Mounted
    <2>2. Kinds(table) /\ Grown(Known, table)
      BY <1>1, <1>2, CreatedTable DEF Item
    <2>3. UNCHANGED <<Objects, ObjectArray>> \/ (Objects' = table.objects /\ ObjectArray' = table.array)
      BY <1>3 DEF CreateExport
    <2> HIDE DEF table
    <2> QED BY <1>1, <2>1, <2>2, <2>3, TableStays, TableGrows
  <1> QED BY <1>9, <1>10

-----------------------------------------------------------------------------
(* Serializing: what a well-formed package's next entry finds.                *)

LEMMA ClassIsDeclared ==
  ASSUME ZenInv, TableInv, ConvertInv, stage = "Convert", bundle # <<>>,
         Head(bundle).command = "Serialize", mappingsFile = "whole", WellFormed(Skin)
  PROVE  LET i == Head(bundle).index
             class == Exports[i].class
         IN  /\ aligned /\ class # 0
             /\ Item(i).values => Objects[class].props # "" /\ Lists(Objects, class) = Declared(Item(i).class)
  <1> DEFINE i == Head(bundle).index
             class == Exports[i].class
  <1>1. BundleInv /\ MadeInv /\ ReadInv /\ Skin \in DOMAIN Packages
    BY DEF ConvertInv, ClickedInv
  <1>2. At \in Nat /\ At + 1 \in 1 .. Len(Full) /\ Head(bundle) = Full[At + 1]
    <2>1. Full \in Seq(Commands(Skin)) /\ bundle \in Seq(Commands(Skin)) /\ At \in 0 .. Len(Full)
          /\ \A j \in 1 .. Len(bundle) : bundle[j] = Full[At + j]
      BY <1>1 DEF BundleInv
    <2>2. At = Len(Full) - Len(bundle)
      BY DEF At
    <2> HIDE DEF Full, At
    <2> QED BY <2>1, <2>2
  <1>3. At + 1 \in Serializes(Skin)
    <2>1. DOMAIN Full = 1 .. Len(Full)
      BY <1>1, BundleIs DEF Full
    <2> QED BY <1>2, <2>1 DEF Serializes, Full
  <1>4. aligned
    <2>1. At + 1 > At
      BY <1>2
    <2> QED BY <1>1, <1>3, <2>1 DEF ReadInv
  <1>5. /\ Item(i).template # "null" /\ IsScript(Item(i).class)
        /\ Item(i).values => \E s \in DOMAIN Schemas : Schemas[s].name = Item(i).class /\ Schemas[s].own
    <2>1. Entry(Skin, At + 1) = Item(i)
      BY <1>2 DEF Entry, Item, Full
    <2> QED BY <1>3, <2>1 DEF WellFormed
  <1>6. class # 0
    <2>0. PICK k \in Serializes(Skin) : k = At + 1
      BY <1>3
    <2>1. PICK j \in 1 .. k - 1 : Full[j] = [command |-> "Create", index |-> Full[k].index]
      BY <1>1, BundleIs DEF Full
    <2>2. j \in 1 .. At
      BY <1>2, <2>0, <2>1
    <2>3. Full[j].index = i /\ Full[j].command = "Create"
      BY <1>2, <2>0, <2>1
    <2>4. Creates(Full[j])
      BY <1>5, <2>3 DEF Creates
    <2> QED BY <1>1, <2>2, <2>3, <2>4 DEF MadeInv
  <1>7. Item(i).class \in DOMAIN ObjectArray /\ class = ObjectArray[Item(i).class]
    <2>1. i \in DOMAIN Exports
      BY <1>1, <1>2, <1>3, SerializedIsThere DEF MadeInv
    <2> QED BY <1>1, <1>6, <2>1 DEF MadeInv
  <1>8. ASSUME Item(i).values
        PROVE  Objects[class].props # "" /\ Lists(Objects, class) = Declared(Item(i).class)
    <2>1. Declares(Known)
      BY DEF TableInv, Mounted
    <2>2. Known.objects = Objects /\ Known.array = ObjectArray
      BY DEF Known
    <2>3. PICK s \in DOMAIN Schemas : Schemas[s].name = Item(i).class /\ Schemas[s].own
      BY <1>5, <1>8
    <2>4. s \in 1 .. Len(Schemas) /\ Schemas[s] \in Structs /\ Schemas[s].name \in SchemaNames
          /\ Schemas[s].name # ""
      BY <2>3, SchemasAre
    <2>5. Lists(Objects, class) = Declared(Item(i).class)
      BY <1>7, <2>1, <2>2, <2>3, <2>4, WalkIsDeclared
    <2>6. IsAt(Known, Schemas[s])
      BY <2>1, <2>4 DEF Declares
    <2>7. Objects[class].props # ""
      BY <1>7, <2>2, <2>3, <2>4, <2>6 DEF IsAt
    <2> QED BY <2>5, <2>7
  <1> QED BY <1>4, <1>6, <1>8

LEMMA SerializeMade ==
  ASSUME BundleInv, MadeInv, bundle # <<>>, Skin' = Skin, Skin \in DOMAIN Packages,
         Head(bundle).index \in DOMAIN Packages[Skin].exports, NEW export, TrySerializeExport(export)
  PROVE  MadeInv'
  <1> DEFINE i == Head(bundle).index
             class == Exports[i].class
             right == ReadsRight(export, class) \/ (aligned /\ class # 0 /\ ~export.values)
             read == IF class = 0 THEN "no" ELSE IF right THEN "right" ELSE "wrong"
  <1>1. /\ Exports \in [DOMAIN Packages[Skin].exports -> [class : Nat, read : {"no", "right", "wrong"}]]
        /\ firstExport \in {0} \cup DOMAIN Exports
        /\ \A x \in DOMAIN Exports : Exports[x].class # 0 =>
             Item(x).class \in DOMAIN ObjectArray /\ Exports[x].class = ObjectArray[Item(x).class]
        /\ \A j \in 1 .. At : Creates(Full[j]) => Exports[Full[j].index].class # 0
    BY DEF MadeInv
  <1>2. /\ Head(bundle).command = "Serialize" /\ bundle' = Tail(bundle)
        /\ Exports' = [Exports EXCEPT ![i] = [class |-> class, read |-> read]]
        /\ firstExport' = (IF firstExport = 0 THEN i ELSE firstExport)
        /\ UNCHANGED <<Objects, ObjectArray>>
    BY DEF TrySerializeExport, GetFirstExport
  <1>3. At' = At + 1 /\ At \in Nat /\ Head(bundle) = Full[At + 1]
    BY <1>2, Taken
  <1>4. Full' = Full /\ \A x : Item(x)' = Item(x)
    BY SamePackage
  <1>5. \A entry : Creates(entry)' <=> Creates(entry)
    BY <1>4 DEF Creates
  <1>6. ~Creates(Full[At + 1])
    BY <1>2, <1>3 DEF Creates
  <1>7. \A j \in 1 .. At : Full[j].index \in DOMAIN Exports
    BY <1>1, IndexIsThere
  <1>8. read \in {"no", "right", "wrong"}
    OBVIOUS
  <1>9. i \in DOMAIN Exports
    BY <1>1
  <1> HIDE DEF Full, At, read, i
  <1>10. /\ Exports' \in [DOMAIN Packages[Skin].exports -> [class : Nat, read : {"no", "right", "wrong"}]]
         /\ DOMAIN Exports' = DOMAIN Exports
         /\ \A x \in DOMAIN Exports : Exports'[x].class = Exports[x].class
    BY <1>1, <1>2, <1>8, <1>9
  <1>11. \A j \in 1 .. At + 1 : j \in 1 .. At \/ j = At + 1
    BY <1>3
  <1>12. \A j \in 1 .. At + 1 : Creates(Full[j]) => Exports'[Full[j].index].class # 0
    BY <1>1, <1>6, <1>7, <1>10, <1>11
  <1>13. firstExport' \in {0} \cup DOMAIN Exports
    BY <1>1, <1>2, <1>9
  <1> QED BY <1>1, <1>2, <1>3, <1>4, <1>5, <1>10, <1>12, <1>13 DEF MadeInv

LEMMA SerializeRead ==
  ASSUME ZenInv, TableInv, ConvertInv, stage = "Convert", bundle # <<>>, Skin' = Skin,
         mappingsFile = "whole", WellFormed(Skin), TrySerializeExport(Item(Head(bundle).index))
  PROVE  ReadInv'
  <1> DEFINE i == Head(bundle).index
             class == Exports[i].class
             export == Item(i)
             right == ReadsRight(export, class) \/ (aligned /\ class # 0 /\ ~export.values)
  <1>1. BundleInv /\ MadeInv /\ ReadInv /\ Skin \in DOMAIN Packages
    BY DEF ConvertInv, ClickedInv
  <1>2. /\ Head(bundle).command = "Serialize" /\ bundle' = Tail(bundle)
        /\ Exports' = [Exports EXCEPT ![i] =
             [class |-> class, read |-> IF class = 0 THEN "no" ELSE IF right THEN "right" ELSE "wrong"]]
        /\ aligned' = (right /\ ~export.tail)
        /\ firstExport' = (IF firstExport = 0 THEN i ELSE firstExport)
    BY DEF TrySerializeExport, GetFirstExport
  <1>3. /\ aligned /\ class # 0
        /\ export.values => Lists(Objects, class) = Declared(export.class)
    BY <1>2, ClassIsDeclared
  <1>4. right
    BY <1>3 DEF ReadsRight
  <1>5. At' = At + 1 /\ At \in Nat /\ At + 1 \in 1 .. Len(Full) /\ Head(bundle) = Full[At + 1]
    BY <1>1, <1>2, Taken
  <1>6. DOMAIN Full = 1 .. Len(Full) /\ Serializes(Skin) \in SUBSET Nat
    BY <1>1, BundleIs DEF Full, Serializes
  <1>7. At + 1 \in Serializes(Skin)
    BY <1>2, <1>5, <1>6 DEF Serializes, Full
  <1>8. Definition(Skin) \in Serializes(Skin) /\ \A j \in Serializes(Skin) : Definition(Skin) <= j
    BY <1>1, DefinitionIs DEF WellFormed
  <1>9. \A j \in Serializes(Skin) : Full[j].index \in DOMAIN Exports /\ Full[j].index # 0
    <2> SUFFICES ASSUME NEW j \in Serializes(Skin)
                 PROVE  Full[j].index \in DOMAIN Exports /\ Full[j].index # 0
      OBVIOUS
    <2>1. Full[j].index \in DOMAIN Exports
      BY <1>1, SerializedIsThere DEF MadeInv
    <2>2. DOMAIN Exports = 1 .. Len(Packages[Skin].exports) /\ Len(Packages[Skin].exports) \in Nat
      BY <1>1, BundleIs DEF MadeInv
    <2> QED BY <2>1, <2>2
  <1>10. export.tail => \A j \in Serializes(Skin) : j <= At + 1
    <2>1. Entry(Skin, At + 1) = export
      BY <1>5 DEF Entry, Item, Full
    <2> QED BY <1>7, <2>1 DEF WellFormed
  <1>11. Full' = Full /\ Serializes(Skin)' = Serializes(Skin) /\ Definition(Skin)' = Definition(Skin)
    BY SamePackage
  <1>12. Full[At + 1].index = i
    BY <1>5
  <1>13. /\ \A j \in Serializes(Skin) : j <= At => Exports[Full[j].index].read = "right"
         /\ firstExport = IF Definition(Skin) <= At THEN Full[Definition(Skin)].index ELSE 0
    BY <1>1 DEF ReadInv
  <1>14. Exports' = [Exports EXCEPT ![i] = [class |-> class, read |-> "right"]]
    BY <1>2, <1>3, <1>4
  <1> HIDE DEF Full, At, i, export, right, class
  <1>15. ASSUME NEW j \in Serializes(Skin), j <= At + 1
         PROVE  Exports'[Full[j].index].read = "right"
    <2>1. CASE Full[j].index = i
      BY <1>9, <1>14, <2>1
    <2>2. CASE Full[j].index # i
      <3>1. j # At + 1
        BY <1>12, <2>2
      <3>2. j <= At
        BY <1>5, <1>6, <1>15, <3>1
      <3>3. Exports[Full[j].index].read = "right"
        BY <1>13, <3>2
      <3> QED BY <1>9, <1>14, <2>2, <3>3
    <2> QED BY <2>1, <2>2
  <1>16. ASSUME NEW j \in Serializes(Skin), j > At + 1 PROVE aligned'
    <2>1. ~(j <= At + 1)
      BY <1>5, <1>6, <1>16
    <2> QED BY <1>2, <1>4, <1>10, <2>1
  <1>17. firstExport' = IF Definition(Skin) <= At + 1 THEN Full[Definition(Skin)].index ELSE 0
    <2>1. Definition(Skin) <= At + 1
      BY <1>7, <1>8
    <2>2. CASE Definition(Skin) <= At
      BY <1>2, <1>8, <1>9, <1>13, <2>1, <2>2
    <2>3. CASE ~(Definition(Skin) <= At)
      <3>1. Definition(Skin) = At + 1
        BY <1>5, <1>6, <1>8, <2>1, <2>3
      <3> QED BY <1>2, <1>12, <1>13, <2>1, <2>3, <3>1
    <2> QED BY <2>2, <2>3
  <1> QED BY <1>5, <1>11, <1>15, <1>16, <1>17 DEF ReadInv

LEMMA SerializeStep ==
  ASSUME ZenInv, TableInv, ConvertInv, ProcessExports, TrySerializeExport(Export)
  PROVE  TableInv' /\ ConvertInv'
  <1>1. /\ stage = "Convert" /\ stage' = "Convert" /\ Skin' = Skin /\ bundle # <<>>
        /\ ClickedInv' /\ BundleInv /\ MadeInv
        /\ mappingsFile = "whole" /\ WellFormed(Skin) => ReadInv
        /\ mappingsFile' = mappingsFile /\ after' = after
        /\ Head(bundle).index \in DOMAIN Packages[Skin].exports
        /\ TrySerializeExport(Item(Head(bundle).index))
        /\ Skin \in DOMAIN Packages
    BY ProcessesHere DEF ClickedInv
  <1>2. /\ bundle' = Tail(bundle) /\ UNCHANGED <<Objects, ObjectArray>>
        /\ aligned' \in BOOLEAN
    BY DEF TrySerializeExport
  <1>3. MadeInv'
    BY <1>1, SerializeMade
  <1>4. BundleInv'
    BY <1>1, <1>2, Taken
  <1>5. ASSUME mappingsFile = "whole", WellFormed(Skin) PROVE ReadInv'
    BY <1>1, <1>5, SerializeRead
  <1>6. WellFormed(Skin)' <=> WellFormed(Skin)
    BY <1>1, SamePackage
  <1>7. ConvertInv'
    BY <1>1, <1>2, <1>3, <1>4, <1>5, <1>6 DEF ConvertInv
  <1>8. TableInv'
    BY <1>1, <1>2, TableStays DEF Mounted
  <1> QED BY <1>7, <1>8

-----------------------------------------------------------------------------
(* A click ends the process only for one of the named reasons.                *)

\* With everything there, a well-formed package's entries are all processed.
LEMMA EntriesSurvive ==
  ASSUME ZenInv, TableInv, ConvertInv, stage = "Convert", bundle # <<>>,
         mappingsFile = "whole", WellFormed(Skin)
  PROVE  ~CreateDies(Export) /\ ~SerializeDies(Export)
  <1> DEFINE i == Head(bundle).index
  <1>1. BundleInv /\ Skin \in DOMAIN Packages /\ TableOK(Known) /\ Kinds(Known)
    BY DEF ConvertInv, ClickedInv, ZenInv, TableInv
  <1>2. i \in DOMAIN Packages[Skin].exports /\ Export = Item(i)
    <2>1. bundle \in Seq(Commands(Skin))
      BY <1>1 DEF BundleInv
    <2>2. Head(bundle) \in Commands(Skin)
      BY <2>1
    <2> QED BY <2>2 DEF Commands, Export, Item
  <1>3. ~CreateDies(Item(i))
    <2> DEFINE export == Item(i)
               third == Resolved(Known, export.template, "object")
               class == Resolved(third, export.class, "class")
               table == Resolved(class, export.outer, "object")
    <2>1. TableOK(third) /\ Kinds(third)
      BY <1>1, <1>2, CreatedTable DEF Item
    <2>2. \A f \in {"template", "class", "outer"} : IsScript(export[f]) => export[f] \in ScriptRefs(Skin, f)
      BY <1>2 DEF ScriptRefs, Item
    <2>3. \A f \in {"template", "class", "outer"} : ScriptRefs(Skin, f) \subseteq ScriptObjects
      BY DEF WellFormed
    <2>4. \A f \in {"template", "class", "outer"} : IsScript(export[f]) => export[f] \in ScriptObjects
      BY <2>2, <2>3
    <2>5. IsScript(export.class) => export.class \in ScriptObjects /\ export.class \notin ObjectNames
      BY <2>2, <2>4 DEF WellFormed, ObjectNames
    <2>6. /\ IsScript(export.template) => export.template \in ScriptObjects
          /\ IsScript(export.outer) => export.outer \in ScriptObjects
      BY <2>4
    <2> HIDE DEF export, third, table
    <2>7. Resolvable(Known, export.template, "object")
      BY <2>6 DEF Resolvable
    <2>8. Resolvable(third, export.class, "class")
      BY <2>1, <2>5 DEF Resolvable, Kinds
    <2>9. Resolvable(table, export.outer, "object")
      BY <2>6 DEF Resolvable
    <2> QED BY <2>7, <2>8, <2>9 DEF CreateDies, export, third, table
  <1>4. ~SerializeDies(Item(i))
    <2> SUFFICES ASSUME Head(bundle).command = "Serialize" PROVE ~SerializeDies(Item(i))
      BY DEF SerializeDies
    <2>1. /\ aligned /\ Exports[i].class # 0
          /\ Item(i).values => /\ Objects[Exports[i].class].props # ""
                               /\ Lists(Objects, Exports[i].class) = Declared(Item(i).class)
      BY ClassIsDeclared
    <2> QED BY <2>1 DEF SerializeDies, ReadsRight
  <1> QED BY <1>2, <1>3, <1>4

\* ... and the definition that was read first has the parts.
LEMMA PartsAreThere ==
  ASSUME ConvertInv, stage = "Convert", bundle = <<>>, mappingsFile = "whole", WellFormed(Skin)
  PROVE  CharacterParts = Entry(Skin, Definition(Skin)).parts /\ CharacterParts # {}
  <1>1. BundleInv /\ MadeInv /\ ReadInv /\ Skin \in DOMAIN Packages
    BY DEF ConvertInv, ClickedInv
  <1>2. At = Len(Full) /\ Len(Full) \in Nat
    <2>1. Full \in Seq(Commands(Skin)) /\ At = Len(Full) - Len(bundle) /\ Len(bundle) = 0
      BY <1>1 DEF BundleInv, At
    <2> HIDE DEF Full, At
    <2> QED BY <2>1
  <1>3. Definition(Skin) \in Serializes(Skin) /\ Serializes(Skin) \in SUBSET (1 .. Len(Full))
    <2>1. Definition(Skin) \in Serializes(Skin)
      BY <1>1, DefinitionIs DEF WellFormed
    <2>2. Serializes(Skin) \in SUBSET (1 .. Len(Full))
      BY <1>1, BundleIs DEF Serializes, Full
    <2> QED BY <2>1, <2>2
  <1> DEFINE i == Full[Definition(Skin)].index
  <1>4. Definition(Skin) <= At
    BY <1>2, <1>3
  <1>5. firstExport = i /\ Exports[i].read = "right"
    BY <1>1, <1>3, <1>4 DEF ReadInv
  <1>6. i # 0
    <2>1. i \in DOMAIN Exports
      BY <1>1, <1>3, SerializedIsThere DEF MadeInv
    <2>2. DOMAIN Exports = 1 .. Len(Packages[Skin].exports) /\ Len(Packages[Skin].exports) \in Nat
      BY <1>1, BundleIs DEF MadeInv
    <2> QED BY <2>1, <2>2
  <1>7. CharacterParts = Packages[Skin].exports[i].parts
    BY <1>5, <1>6 DEF CharacterParts
  <1>8. Entry(Skin, Definition(Skin)) = Packages[Skin].exports[i]
    BY DEF Entry, Full
  <1> QED BY <1>7, <1>8 DEF WellFormed

-----------------------------------------------------------------------------
(* All of the program's state together.                                       *)

\* What was written has the summary of a package.
RestInv ==
  /\ Skin \in {NoPath} \cup {Registry[i].path : i \in DOMAIN Registry}
  /\ written # NoPackage => DOMAIN written.summary = {Offsets[k] : k \in DOMAIN Offsets}
  /\ crashed \in BOOLEAN

ClickInv == SwapperInv /\ ZenInv /\ PageInv /\ TableInv /\ ConvertInv /\ RestInv

LEMMA RestStays ==
  ASSUME RestInv, UNCHANGED <<Skin, written>>, crashed' \in BOOLEAN
  PROVE  RestInv'
  BY DEF RestInv

\* Away from a conversion nothing is kept of the package.
LEMMA NoConversion ==
  ASSUME stage' # "Convert", Exports' = <<>>, firstExport' = 0, aligned' \in BOOLEAN
  PROVE  ConvertInv'
  BY DEF ConvertInv

LEMMA ClickInit == Init => ClickInv
  <1> SUFFICES ASSUME Init PROVE ClickInv
    OBVIOUS
  <1>1. SwapperInv
    BY SwapperInit
  <1>2. Known = Empty
    BY DEF Init, ZenInit, Known, Empty
  <1>3. ZenInv
    BY <1>2, EmptyZen
  <1>4. PageInv
    <2>1. <<>> \in Seq(SkinIds) /\ <<>> \in Seq(Ids)
      OBVIOUS
    <2>2. 0 \in 0 .. Len(Registry)
      BY PlacesAre
    <2> QED BY <2>1, <2>2 DEF Init, CatalogInit, PageInv, CatalogTypeOK
  <1>5. TableInv
    BY <1>2, EmptyKinds DEF TableInv, Mounted, Init, SessionInit, Saving
  <1>6. ConvertInv
    BY DEF ConvertInv, Init, SessionInit, ZenInit
  <1>7. RestInv
    BY DEF RestInv, Init
  <1> QED BY <1>1, <1>3, <1>4, <1>5, <1>6, <1>7 DEF ClickInv

\* A conversion goes on while others bind keys, and nothing before the pages begins one.
LEMMA ConvertBefore ==
  ASSUME SessionInv, StartStep \/ SaveStep \/ KeyStep \/ Outside
  PROVE  \/ stage # "Convert" /\ stage' # "Convert"
         \/ stage' = stage /\ mappingsFile' = mappingsFile /\ OodleLoaded' = OodleLoaded
  BY DEF StartStep, SaveStep, KeyStep, Outside, Keep, OpenDownload, NoDownload, Downloaded,
         DownloadFails, LoadDLL, LoadDLLExits, FetchFails, MappingsThere, OpenMappings,
         NoMappings, CloseMappings, DecompressThrows, Goto, SaveOpen, SaveWrite, KeyRefused,
         KeyFound, SetHWID, SetHWIDFails, Launch, LaunchRefused, RemoveFile, OtherMachineBinds,
         SessionInv, SessionTypeOK, Die, Forget, Record, Accept, Save, Outdated

LEMMA ConvertStays ==
  ASSUME ConvertInv, UNCHANGED <<catalogVars, zenVars, Skin>>,
         \/ stage # "Convert" /\ stage' # "Convert"
         \/ stage' = stage /\ mappingsFile' = mappingsFile /\ OodleLoaded' = OodleLoaded
  PROVE  ConvertInv'
  <1>1. /\ Skin' = Skin /\ modals' = modals /\ currentId' = currentId
        /\ UNCHANGED <<Objects, ObjectArray, bundle, Exports, aligned, firstExport>>
    BY DEF catalogVars, zenVars
  <1>2. CASE stage' # "Convert" /\ stage # "Convert"
    BY <1>1, <1>2 DEF ConvertInv
  <1>3. CASE stage' = stage /\ mappingsFile' = mappingsFile /\ OodleLoaded' = OodleLoaded
    <2>1. Full' = Full /\ \A i : Item(i)' = Item(i)
      BY <1>1, SamePackage
    <2>2. Serializes(Skin)' = Serializes(Skin) /\ Definition(Skin)' = Definition(Skin)
          /\ (WellFormed(Skin)' <=> WellFormed(Skin))
      BY <1>1, SamePackage
    <2>3. At' = At /\ Commands(Skin)' = Commands(Skin)
      BY <1>1, <2>1 DEF At, Commands
    <2>4. \A e : Creates(e)' <=> Creates(e)
      BY <2>1 DEF Creates
    <2>5. ClickedInv => ClickedInv'
      BY <1>1, <1>3 DEF ClickedInv, GetItemById
    <2> HIDE DEF Full, At
    <2>6. BundleInv => BundleInv'
      BY <1>1, <2>1, <2>3 DEF BundleInv
    <2>7. MadeInv => MadeInv'
      BY <1>1, <2>1, <2>3, <2>4 DEF MadeInv
    <2>8. ReadInv => ReadInv'
      BY <1>1, <2>1, <2>2, <2>3 DEF ReadInv
    <2> QED BY <1>1, <1>3, <2>2, <2>5, <2>6, <2>7, <2>8 DEF ConvertInv
  <1> QED BY <1>2, <1>3

LEMMA BeforeClick == ASSUME ClickInv, BeforeThePages PROVE ClickInv'
  <1>1. SessionInv /\ (StartStep \/ SaveStep \/ KeyStep \/ Outside)
        /\ UNCHANGED <<catalogVars, zenVars, Skin, written>>
    BY DEF BeforeThePages, ClickInv, SwapperInv
  <1>2. SwapperInv'
    BY BeforeInv DEF ClickInv
  <1>3. UNCHANGED <<Objects, ObjectArray>>
    BY <1>1 DEF zenVars
  <1>4. ZenInv' /\ PageInv'
    BY <1>1, <1>3, ZenStays, PageStays DEF ClickInv
  <1>5. TableInv'
    <2>1. Mounted' => Mounted /\ mappingsFile' = mappingsFile
      BY <1>1, MountedBefore
    <2> QED BY <1>3, <2>1, TableStays DEF ClickInv
  <1>6. ConvertInv'
    BY <1>1, ConvertBefore, ConvertStays DEF ClickInv
  <1>7. RestInv'
    <2>1. crashed' \in BOOLEAN
      BY DEF BeforeThePages, ClickInv, RestInv
    <2> QED BY <1>1, <2>1, RestStays DEF ClickInv
  <1> QED BY <1>2, <1>4, <1>5, <1>6, <1>7 DEF ClickInv

LEMMA MountClick == ASSUME ClickInv, MountAsync PROVE ClickInv'
  <1>1. SwapperInv'
    BY MountInv DEF ClickInv
  <1>2. /\ stage = "Mount" /\ stage' = "Key" /\ mappingsFile' = mappingsFile
        /\ UNCHANGED <<catalogVars, Exports, aligned, firstExport, Skin, written, crashed>>
        /\ RegisterTypesFromUsmap(mappingsFile = "whole")
    BY DEF MountAsync, OpenKeyPage
  <1>3. ZenInv' /\ PageInv'
    BY <1>2, RegisterInv, PageStays DEF ClickInv
  <1>4. TableInv'
    <2>1. CASE mappingsFile = "whole"
      <3>1. Known'.objects = Declarations.objects /\ Known'.array = Declarations.array
        BY <1>2, <2>1 DEF RegisterTypesFromUsmap, Known
      <3> QED BY <3>1, DeclaredKinds DEF TableInv, Kinds, Declares, TableOK, IsAt
    <2>2. CASE mappingsFile # "whole"
      <3>1. Known' = Empty
        BY <1>2, <2>2 DEF RegisterTypesFromUsmap, Known, Empty
      <3> QED BY <1>2, <2>2, <3>1, EmptyKinds DEF TableInv, Kinds
    <2> QED BY <2>1, <2>2
  <1>5. ConvertInv'
    BY <1>2, NoConversion DEF ClickInv, ConvertInv
  <1>6. RestInv'
    BY <1>2, RestStays DEF ClickInv, RestInv
  <1> QED BY <1>1, <1>3, <1>4, <1>5, <1>6 DEF ClickInv

LEMMA PagesClick == ASSUME ClickInv, OnThePages PROVE ClickInv'
  <1>1. SwapperInv'
    BY PagesInv DEF ClickInv
  <1>2. CatalogStep /\ UNCHANGED <<zenVars, Skin, written, crashed>>
    BY DEF OnThePages
  <1>3. UNCHANGED sessionVars /\ stage = "Home"
    BY <1>2, SessionStays
       DEF CatalogStep, ShowHome, ShowCosmetics, SendToHome, SendToSkins, OnLoad, OnNextPage,
           OnPreviousPage, OnSearch, OnClick, Cancel, HideModal, Clickable, Idle
  <1>4. stage' = stage /\ mappingsFile' = mappingsFile /\ after' = after
        /\ UNCHANGED <<Objects, ObjectArray, Exports, aligned, firstExport>>
    BY <1>2, <1>3 DEF sessionVars, zenVars
  <1>5. ZenInv' /\ PageInv'
    BY <1>2, <1>4, ZenStays, PagesKeepPage DEF ClickInv, SwapperInv
  <1>6. TableInv'
    BY <1>4, TableStays DEF ClickInv, Mounted
  <1>7. ConvertInv'
    BY <1>3, <1>4, NoConversion DEF ClickInv, ConvertInv
  <1>8. RestInv'
    BY <1>2, RestStays DEF ClickInv, RestInv
  <1> QED BY <1>1, <1>5, <1>6, <1>7, <1>8 DEF ClickInv

LEMMA EndClick == ASSUME ClickInv, End, crashed' \in BOOLEAN PROVE ClickInv'
  <1>1. SwapperInv'
    BY EndInv DEF ClickInv
  <1>2. /\ stage' = "Down" /\ Skin' = NoPath /\ written' = written
        /\ Exports' = <<>> /\ firstExport' = 0 /\ aligned' = TRUE
    BY DEF End, Die, ZenReset
  <1>3. Known' = Empty
    BY DEF End, ZenReset, Known, Empty
  <1>4. ZenInv'
    <2>1. TableOK(Empty) /\ Blanks(Empty)
      BY EmptyTable, TablesAre DEF Blanks, Empty
    <2> QED BY <1>3, <2>1 DEF ZenInv
  <1>5. PageInv'
    BY PageResets DEF End
  <1>6. TableInv'
    BY <1>2, <1>3, EmptyKinds DEF TableInv, Mounted, Saving, Kinds
  <1>7. ConvertInv'
    BY <1>2, NoConversion
  <1>8. RestInv'
    BY <1>2 DEF ClickInv, RestInv
  <1> QED BY <1>1, <1>4, <1>5, <1>6, <1>7, <1>8 DEF ClickInv

\* An item that is asked for is a skin, and its path one of the registry's.
LEMMA AddedSkin ==
  ASSUME PageInv, AddLoadoutItem
  PROVE  /\ stage = "Home" /\ crashed' = crashed /\ mappingsFile' = mappingsFile
         /\ Skin' \in {Registry[i].path : i \in DOMAIN Registry}
  <1>1. stage = "Home" /\ modals # {} /\ Skin' = GetItemById(currentId).path
        /\ crashed' = crashed /\ mappingsFile' = mappingsFile
    BY DEF AddLoadoutItem, Idle
  <1>2. currentId \in SkinIds
    BY <1>1 DEF PageInv
  <1>3. PICK i \in DOMAIN Registry : GetItemById(currentId) = Registry[i]
    BY <1>2, ItemIsFound
  <1> QED BY <1>1, <1>3

LEMMA RevertClick == ASSUME ClickInv, Revert PROVE ClickInv'
  <1>1. /\ AddLoadoutItem /\ stage' = "Save" /\ after' = "Save" /\ written' = NoPackage
        /\ UNCHANGED <<Objects, ObjectArray, Exports, aligned, firstExport>>
    BY DEF Revert, SaveTwice, Save, zenVars
  <1>2. SwapperInv'
    BY ConvertingInv DEF ClickInv, Converting
  <1>3. /\ stage = "Home" /\ crashed' = crashed /\ mappingsFile' = mappingsFile
        /\ Skin' \in {Registry[i].path : i \in DOMAIN Registry}
    BY <1>1, AddedSkin DEF ClickInv
  <1>4. ZenInv' /\ PageInv'
    BY <1>1, ZenStays, AddKeepsPage DEF ClickInv
  <1>5. TableInv'
    BY <1>1, <1>3, TableStays DEF ClickInv, Mounted
  <1>6. ConvertInv'
    BY <1>1, <1>3, NoConversion DEF ClickInv, ConvertInv
  <1>7. RestInv'
    BY <1>1, <1>3 DEF ClickInv, RestInv
  <1> QED BY <1>2, <1>4, <1>5, <1>6, <1>7 DEF ClickInv

LEMMA LoadClick == ASSUME ClickInv, LoadPackage PROVE ClickInv'
  <1>1. AddLoadoutItem /\ UNCHANGED <<written, Objects, ObjectArray>>
    BY DEF LoadPackage, MakePackage
  <1>2. SwapperInv'
    BY ConvertingInv DEF ClickInv, Converting
  <1>3. /\ stage = "Home" /\ crashed' = crashed /\ mappingsFile' = mappingsFile
        /\ Skin' \in {Registry[i].path : i \in DOMAIN Registry}
    BY <1>1, AddedSkin DEF ClickInv
  <1>4. ZenInv' /\ PageInv'
    BY <1>1, ZenStays, AddKeepsPage DEF ClickInv
  <1>5. TableInv'
    BY <1>1, <1>3, TableStays DEF ClickInv, Mounted
  <1>6. ConvertInv'
    BY LoadPackageClick DEF ClickInv
  <1>7. RestInv'
    BY <1>1, <1>3 DEF ClickInv, RestInv
  <1> QED BY <1>2, <1>4, <1>5, <1>6, <1>7 DEF ClickInv

LEMMA ExportsClick == ASSUME ClickInv, ProcessExports PROVE ClickInv'
  <1>1. CreateExport(Export) \/ TrySerializeExport(Export)
    BY DEF ProcessExports
  <1>2. UNCHANGED <<catalogVars, Skin, written, crashed>>
    BY DEF ProcessExports
  <1>3. SwapperInv'
    BY ConvertingInv DEF ClickInv, Converting
  <1>4. ZenInv'
    BY ZenNext DEF ClickInv, Next, Converting
  <1>5. PageInv'
    BY <1>2, PageStays DEF ClickInv
  <1>6. TableInv' /\ ConvertInv'
    BY <1>1, CreateStep, SerializeStep DEF ClickInv
  <1>7. RestInv'
    BY <1>2, RestStays DEF ClickInv, RestInv
  <1> QED BY <1>3, <1>4, <1>5, <1>6, <1>7 DEF ClickInv

LEMMA WrittenIs ==
  ASSUME NEW names
  PROVE  DOMAIN SerializeAsByteArray(AssetData, names).summary = {Offsets[k] : k \in DOMAIN Offsets}
  <1>1. DOMAIN AssetData.summary = {Offsets[k] : k \in DOMAIN Offsets}
    BY DEF AssetData
  <1> QED BY <1>1 DEF SerializeAsByteArray, Shifted

LEMMA PatchClick == ASSUME ClickInv, PatchFortnite \/ PatchFortniteFails PROVE ClickInv'
  <1>1. /\ stage = "Convert" /\ stage' = "Save" /\ after' \in {"Save", "Home"}
        /\ Exports' = <<>> /\ firstExport' = 0 /\ aligned' = TRUE
        /\ UNCHANGED <<Objects, ObjectArray, catalogVars, Skin, crashed>>
        /\ mappingsFile' = mappingsFile
    BY DEF PatchFortnite, PatchFortniteFails, SaveTwice, Save
  <1>2. SwapperInv'
    BY ConvertingInv DEF ClickInv, Converting
  <1>3. ZenInv' /\ PageInv'
    BY <1>1, ZenStays, PageStays DEF ClickInv
  <1>4. TableInv'
    BY <1>1, TableStays DEF ClickInv, Mounted
  <1>5. ConvertInv'
    BY <1>1, NoConversion
  <1>6. RestInv'
    <2>1. CASE written' = written
      BY <1>1, <2>1, RestStays DEF ClickInv, RestInv
    <2>2. CASE PatchFortnite
      <3>1. PICK parts : written' = SerializeAsByteArray(AssetData, Renamed(parts))
        BY <2>2 DEF PatchFortnite
      <3>2. DOMAIN written'.summary = {Offsets[k] : k \in DOMAIN Offsets}
        BY <3>1, WrittenIs
      <3> QED BY <1>1, <3>2 DEF ClickInv, RestInv
    <2> QED BY <2>1, <2>2 DEF PatchFortniteFails
  <1> QED BY <1>2, <1>3, <1>4, <1>5, <1>6 DEF ClickInv

LEMMA ClickNext == ASSUME ClickInv, [Next]_vars PROVE ClickInv'
  <1>1. CASE BeforeThePages \/ MountAsync \/ OnThePages
    BY <1>1, BeforeClick, MountClick, PagesClick
  <1>2. CASE Revert \/ LoadPackage \/ ProcessExports \/ PatchFortnite \/ PatchFortniteFails
    BY <1>2, RevertClick, LoadClick, ExportsClick, PatchClick
  <1>3. CASE Crash \/ CloseSaturn
    <2>1. End /\ crashed' \in BOOLEAN
      BY <1>3 DEF Crash, CloseSaturn, ClickInv, RestInv
    <2> QED BY <2>1, EndClick
  <1>4. CASE UNCHANGED vars
    <2>1. UNCHANGED <<sessionVars, catalogVars, zenVars, Skin, written, crashed>>
      BY <1>4 DEF vars
    <2>2. stage' = stage /\ mappingsFile' = mappingsFile /\ OodleLoaded' = OodleLoaded /\ after' = after
          /\ UNCHANGED <<Objects, ObjectArray>>
      BY <2>1 DEF sessionVars, zenVars
    <2>3. SwapperInv'
      BY <2>1, ExportsInv DEF ClickInv
    <2>4. ZenInv' /\ PageInv' /\ TableInv'
      BY <2>1, <2>2, ZenStays, PageStays, TableStays DEF ClickInv, Mounted
    <2>5. ConvertInv'
      BY <2>1, <2>2, ConvertStays DEF ClickInv
    <2>6. RestInv'
      BY <2>1, RestStays DEF ClickInv, RestInv
    <2> QED BY <2>3, <2>4, <2>5, <2>6 DEF ClickInv
  <1> QED BY <1>1, <1>2, <1>3, <1>4
          DEF Next, Converting, LoadPackageDies, ProcessExportsDies, GetPropertyDies

\* The inductive invariant of the whole program with its clicks: what is read at any
\* time in a session (ZenPackageReader.cpp:53-125) rests on it.
THEOREM ClickInvariant == Spec => []ClickInv
  BY ClickInit, ClickNext, PTL DEF Spec

LEMMA ClickTypes == ClickInv => TypeOK
  <1> SUFFICES ASSUME ClickInv PROVE TypeOK
    OBVIOUS
  <1>1. SessionTypeOK /\ CatalogTypeOK
    BY DEF ClickInv, SwapperInv, SessionInv, PageInv
  <1>2. TableOK(Known) /\ Known.objects = Objects /\ Known.array = ObjectArray
    BY DEF ClickInv, ZenInv, Known
  <1>3. Objects \in Seq(Entries) /\ DOMAIN Objects = 1 .. Len(Objects) /\ Len(Objects) \in Nat
    BY <1>2 DEF TableOK
  <1>4. \A i \in DOMAIN Objects : Objects[i].kind \in {"class", "object"} /\ Objects[i].super \in 0 .. Len(Objects)
    <2> SUFFICES ASSUME NEW i \in DOMAIN Objects
                 PROVE  Objects[i].kind \in {"class", "object"} /\ Objects[i].super \in 0 .. Len(Objects)
      OBVIOUS
    <2>1. Objects[i] \in Entries
      BY <1>3
    <2> QED BY <1>2, <1>3, <2>1 DEF TableOK, Entries
  <1>5. \A n \in DOMAIN ObjectArray : ObjectArray[n] \in 1 .. Len(Objects)
    BY <1>2 DEF TableOK
  <1>6. /\ \A i \in DOMAIN Exports : Exports[i].class \in 0 .. Len(Objects) /\ Exports[i].read \in {"no", "right", "wrong"}
        /\ firstExport \in 0 .. Len(Exports)
    <2>1. CASE stage # "Convert"
      BY <2>1 DEF ClickInv, ConvertInv
    <2>2. CASE stage = "Convert"
      <3>1. MadeInv /\ Skin \in DOMAIN Packages
        BY <2>2 DEF ClickInv, ConvertInv, ClickedInv
      <3>2. DOMAIN Packages[Skin].exports = 1 .. Len(Packages[Skin].exports) /\ Len(Packages[Skin].exports) \in Nat
        BY <3>1, BundleIs
      <3>3. Exports \in [1 .. Len(Packages[Skin].exports) -> [class : Nat, read : {"no", "right", "wrong"}]]
        BY <3>1, <3>2 DEF MadeInv
      <3>4. Len(Exports) = Len(Packages[Skin].exports) /\ DOMAIN Exports = 1 .. Len(Exports)
        BY <3>2, <3>3
      <3>5. firstExport \in 0 .. Len(Exports)
        <4>1. firstExport \in {0} \cup 1 .. Len(Exports)
          BY <3>1, <3>4 DEF MadeInv
        <4> QED BY <3>2, <3>4, <4>1
      <3>6. ASSUME NEW i \in DOMAIN Exports
            PROVE  Exports[i].class \in 0 .. Len(Objects) /\ Exports[i].read \in {"no", "right", "wrong"}
        <4>1. Exports[i] \in [class : Nat, read : {"no", "right", "wrong"}]
          BY <3>3
        <4>2. CASE Exports[i].class # 0
          <5>1. Exports[i].class \in 1 .. Len(Objects)
            BY <1>5, <3>1, <4>2 DEF MadeInv
          <5> QED BY <1>3, <4>1, <5>1
        <4> QED BY <1>3, <4>1, <4>2
      <3> QED BY <3>5, <3>6
    <2> QED BY <2>1, <2>2
  <1>7. ZenTypeOK
    BY <1>3, <1>4, <1>5, <1>6 DEF ZenTypeOK, ClickInv, ConvertInv
  <1>8. stage = "Convert" => Skin \in DOMAIN Packages
    BY DEF ClickInv, ConvertInv, ClickedInv
  <1> QED BY <1>1, <1>7, <1>8 DEF TypeOK, ClickInv, RestInv

\* Every variable of the program keeps its type, whatever is listed, clicked and read:
\* tabs within the registry (OnNextPage.ixx:12-44), cards and the clicked item only of
\* skins, exports' classes and the first of them within their tables
\* (ZenPackageReader.cpp:100-198).
THEOREM TypesStay == Spec => []TypeOK
  BY ClickInvariant, ClickTypes, PTL

\* For every registry, mappings file and package, and in every session: with the
\* library and whole mappings a click on a package that the game makes does not end
\* the process (FortniteFunctionLibrary.cpp:319-325).
THEOREM ClicksSurvive == Spec => ConvertDiesOnly
  <1>1. ASSUME ClickInv, [Next]_vars, crashed', ~crashed
        PROVE  mappingsFile # "whole" \/ ~OodleLoaded \/ ~WellFormed(GetItemById(currentId).path)
    <2> SUFFICES ASSUME mappingsFile = "whole", OodleLoaded, WellFormed(GetItemById(currentId).path)
                 PROVE  FALSE
      OBVIOUS
    <2>1. ~LoadPackageDies
      BY DEF LoadPackageDies, WellFormed
    <2>2. ASSUME stage = "Convert" PROVE WellFormed(Skin)
      BY <1>1, <2>2 DEF ClickInv, ConvertInv, ClickedInv
    <2>3. ~ProcessExportsDies
      BY <1>1, <2>2, EntriesSurvive DEF ProcessExportsDies, ClickInv
    <2>4. ~GetPropertyDies
      BY <1>1, <2>2, PartsAreThere DEF GetPropertyDies, ClickInv
    <2>5. crashed' => crashed
      BY <1>1, <2>1, <2>3, <2>4
         DEF Next, vars, BeforeThePages, MountAsync, OnThePages, Converting, CloseSaturn, Revert,
             LoadPackage, AddLoadoutItem, ProcessExports, PatchFortnite, PatchFortniteFails
    <2> QED BY <1>1, <2>5
  <1>2. ClickInv /\ [Next]_vars =>
          ((crashed' /\ ~crashed) =>
             mappingsFile # "whole" \/ ~OodleLoaded \/ ~WellFormed(GetItemById(currentId).path))
    BY <1>1
  <1> QED BY <1>2, ClickInvariant, PTL DEF Spec, ConvertDiesOnly
=============================================================================
