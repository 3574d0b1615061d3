------------------------------- MODULE Session -------------------------------
(***************************************************************************)
(* From the start of the program to the home page: the configuration is    *)
(* loaded, dependencies whose recorded version is not the one the server   *)
(* lists are downloaded and recorded one by one, the Oodle library and the *)
(* mappings are looked for, and a key is checked, bound to this machine    *)
(* and saved.  Every file operation and every request is a step, so that   *)
(* the process can die between any two, and whatever it leaves behind is   *)
(* what the next start finds.                                              *)
(***************************************************************************)
EXTENDS Integers, FiniteSets

CONSTANTS
  Deps,        \* names in the server's dependency list
  Oodle,       \* oo2core_9_win64.dll, one of them
  MaxVersion,  \* bound: versions a dependency ever has
  Genuine,     \* the version of Oodle whose hash is HASH
  Keys,        \* well-formed keys
  NoKey,       \* the empty key
  MaxLaunches  \* bound: starts of the program

ASSUME SessionAssumption ==
  /\ Oodle \in Deps
  /\ MaxVersion \in Nat \ {0}
  /\ Genuine \in 1 .. MaxVersion
  /\ NoKey \notin Keys
  /\ MaxLaunches \in Nat

Versions == 1 .. MaxVersion
NoVersion == 0   \* the "" that Dependencies[name] inserts
Missing == 0     \* no file
Bad == -1        \* a file that holds something else than a whole version

VARIABLES
  stage,         \* where the program is
  after,         \* where FConfig::Save returns to
  ConfigFile,    \* Config.json: "absent", "torn" (truncated) or "whole"
  saved,         \* what a whole Config.json holds
  FConfig,       \* the same in memory
  bLoaded,       \* static of FConfig::Load
  RuntimeKey,
  listed,        \* versions the server lists
  todo,          \* entries of the list still to come
  current,       \* the entry being downloaded
  files,         \* by dependency: what its file in Externals holds
  mappingsFile,  \* the .usmap: "none", "cut" or "whole"
  OodleLoaded,   \* the library's functions are resolved
  versionData,   \* static answer to the first version request
  key,           \* the key being bound
  owner,         \* the server: by key, the machine it is bound to
  excused,       \* history: dependencies whose last download failed, or whose
                 \* file was removed and not yet replaced
  launches       \* counter for the bound

process == <<stage, after, FConfig, bLoaded, RuntimeKey, todo, current, OodleLoaded,
             versionData, key>>
config == <<ConfigFile, saved>>
externals == <<listed, files, mappingsFile, excused>>
sessionVars == <<process, config, externals, owner, launches>>

Blank == [Key |-> NoKey, Dependencies |-> [d \in Deps |-> NoVersion], bHasSwappedSkin |-> FALSE]
Configs == [Key : Keys \cup {NoKey}, Dependencies : [Deps -> Versions \cup {NoVersion}],
            bHasSwappedSkin : BOOLEAN]

\* Stages of FOnLoadSaturn, in their order; the key page and what follows it.
Starting == {"Dependencies", "Download", "Save", "SaveWrite", "Fetch", "Mappings", "Mount"}
Ready == {"Fetch", "Mappings", "Mount", "Key", "Bind", "Home"}

SessionTypeOK ==
  /\ stage \in {"Down", "Refused", "Convert"} \cup Starting \cup Ready
  /\ after \in {"Dependencies", "Save", "Home"}
  /\ ConfigFile \in {"absent", "torn", "whole"}
  /\ saved \in Configs /\ FConfig \in Configs
  /\ bLoaded \in BOOLEAN /\ OodleLoaded \in BOOLEAN
  /\ RuntimeKey \in Keys \cup {NoKey} /\ key \in Keys \cup {NoKey}
  /\ listed \in [Deps -> Versions]
  /\ todo \in SUBSET Deps /\ current \in Deps
  /\ (stage = "Download" => current \in todo)
  /\ files \in [Deps -> Versions \cup {Missing, Bad}]
  /\ mappingsFile \in {"none", "cut", "whole"}
  /\ versionData \in {"none", "current", "other", "failed"}
  /\ owner \in [Keys -> {"free", "mine", "other"}]
  /\ excused \in SUBSET Deps
  /\ launches \in 0 .. MaxLaunches

SessionInit ==
  /\ stage = "Down" /\ after = "Home"
  /\ ConfigFile = "absent" /\ saved = Blank /\ FConfig = Blank
  /\ bLoaded = FALSE /\ OodleLoaded = FALSE
  /\ RuntimeKey = NoKey /\ key = NoKey /\ versionData = "none"
  /\ listed = [d \in Deps |-> 1]
  /\ todo = {} /\ current = Oodle
  /\ files = [d \in Deps |-> Missing] /\ mappingsFile = "none" /\ excused = {}
  /\ owner \in [Keys -> {"free", "mine", "other"}]
  /\ launches = 0

-----------------------------------------------------------------------------
(***************************************************************************)
(* FConfig.  Load happens once per process, and only if there is a file; a *)
(* truncated one is removed.  Save truncates the file, then writes it.     *)
(***************************************************************************)
Merged(memory) ==
  [saved EXCEPT !.Dependencies = [d \in Deps |->
     IF @[d] # NoVersion THEN @[d] ELSE memory.Dependencies[d]]]

Load(memory, loaded) ==
  /\ FConfig' = IF ~loaded /\ ConfigFile = "whole" THEN Merged(memory) ELSE memory
  /\ bLoaded' = (loaded \/ ConfigFile = "whole")
  /\ ConfigFile' = IF ~loaded /\ ConfigFile = "torn" THEN "absent" ELSE ConfigFile
  /\ saved' = IF ~loaded /\ ConfigFile = "torn" THEN Blank ELSE saved

Save == stage' = "Save"

SaveOpen ==
  /\ stage = "Save"
  /\ ConfigFile' = "torn" /\ saved' = Blank
  /\ stage' = "SaveWrite"
  /\ UNCHANGED <<after, FConfig, bLoaded, RuntimeKey, todo, current, OodleLoaded,
                 versionData, key, externals, owner, launches>>

SaveWrite ==
  /\ stage = "SaveWrite"
  /\ ConfigFile' = "whole" /\ saved' = FConfig
  /\ stage' = after
  /\ after' = "Home"
  /\ UNCHANGED <<FConfig, bLoaded, RuntimeKey, todo, current, OodleLoaded,
                 versionData, key, externals, owner, launches>>

-----------------------------------------------------------------------------
(***************************************************************************)
(* The life of the process and what others do to its files and keys.       *)
(***************************************************************************)
Forget ==
  /\ after' = "Home" /\ RuntimeKey' = NoKey /\ key' = NoKey
  /\ current' = Oodle /\ OodleLoaded' = FALSE /\ versionData' = "none"

Die ==
  /\ stage' = "Down"
  /\ FConfig' = Blank /\ bLoaded' = FALSE /\ todo' = {}
  /\ Forget
  /\ UNCHANGED <<config, externals, owner, launches>>

Close == stage # "Down" /\ Die

\* No installation or no dependency list: the page stays, and knows no way on.
LaunchRefused ==
  /\ stage = "Down"
  /\ launches < MaxLaunches /\ launches' = launches + 1
  /\ stage' = "Refused"
  /\ UNCHANGED <<after, FConfig, bLoaded, RuntimeKey, todo, current, OodleLoaded,
                 versionData, key, config, externals, owner>>

\* The server's versions only ever go forward.
Launch ==
  /\ stage = "Down"
  /\ launches < MaxLaunches /\ launches' = launches + 1
  /\ \E now \in [Deps -> Versions] :
       (\A d \in Deps : now[d] >= listed[d]) /\ listed' = now
  /\ Load(Blank, FALSE)
  /\ todo' = Deps
  /\ stage' = "Dependencies"
  /\ Forget
  /\ UNCHANGED <<files, mappingsFile, excused, owner>>

\* A scanner's quarantine, or the user.
RemoveFile(d) ==
  /\ stage = "Down"
  /\ files[d] # Missing
  /\ files' = [files EXCEPT ![d] = Missing]
  /\ excused' = excused \cup {d}
  /\ UNCHANGED <<process, config, listed, mappingsFile, owner, launches>>

OtherMachineBinds(k) ==
  /\ owner[k] = "free"
  /\ owner' = [owner EXCEPT ![k] = "other"]
  /\ UNCHANGED <<process, config, externals, launches>>

-----------------------------------------------------------------------------
(***************************************************************************)
(* FOnLoadSaturn: the dependencies.                                        *)
(***************************************************************************)
\* Wrong: the loop does not advance over an entry that is up to date.
KeepForever(d) ==
  /\ stage = "Dependencies" /\ d \in todo
  /\ files[d] # Missing /\ FConfig.Dependencies[d] = listed[d]
  /\ UNCHANGED sessionVars

Keep(d) ==
  /\ stage = "Dependencies" /\ d \in todo
  /\ files[d] # Missing /\ FConfig.Dependencies[d] = listed[d]
  /\ todo' = todo \ {d}
  /\ UNCHANGED <<stage, after, FConfig, bLoaded, RuntimeKey, current, OodleLoaded,
                 versionData, key, config, externals, owner, launches>>

Outdated(d) == files[d] = Missing \/ FConfig.Dependencies[d] # listed[d]

\* Whatever DownloadFile did, the version is recorded and saved.
Record(d) ==
  /\ FConfig' = [FConfig EXCEPT !.Dependencies[d] = listed[d]]
  /\ todo' = todo \ {d}
  /\ Save /\ after' = "Dependencies"
  /\ UNCHANGED <<bLoaded, RuntimeKey, OodleLoaded, versionData, key, config, listed,
                 mappingsFile, owner, launches>>

\* Wrong: the version is recorded before the file is there.
OpenDownloadRecorded(d) ==
  /\ stage = "Dependencies" /\ d \in todo
  /\ Outdated(d)
  /\ files' = [files EXCEPT ![d] = Bad]
  /\ current' = d
  /\ stage' = "Download"
  /\ ConfigFile' = "whole"
  /\ saved' = [FConfig EXCEPT !.Dependencies[d] = listed[d]]
  /\ UNCHANGED <<after, FConfig, bLoaded, RuntimeKey, todo, OodleLoaded, versionData,
                 key, listed, mappingsFile, excused, owner, launches>>

\* fopen(..., "wb") truncates the old file.
OpenDownload(d) ==
  /\ stage = "Dependencies" /\ d \in todo
  /\ Outdated(d)
  /\ files' = [files EXCEPT ![d] = Bad]
  /\ current' = d
  /\ stage' = "Download"
  /\ UNCHANGED <<after, FConfig, bLoaded, RuntimeKey, todo, OodleLoaded, versionData,
                 key, config, listed, mappingsFile, excused, owner, launches>>

\* An empty link, or no curl handle: a message box, the file untouched.
NoDownload(d) ==
  /\ stage = "Dependencies" /\ d \in todo
  /\ Outdated(d)
  /\ excused' = excused \cup {d}
  /\ Record(d)
  /\ UNCHANGED <<current, files>>

Downloaded ==
  /\ stage = "Download"
  /\ files' = [files EXCEPT ![current] = listed[current]]
  /\ excused' = excused \ {current}
  /\ Record(current)
  /\ UNCHANGED current

\* A transfer that broke off, or an error page with status 404.
DownloadFails ==
  /\ stage = "Download"
  /\ excused' = excused \cup {current}
  /\ Record(current)
  /\ UNCHANGED <<current, files>>

-----------------------------------------------------------------------------
(***************************************************************************)
(* FOnLoadSaturn: the library, the keys of the archives, the mappings.     *)
(***************************************************************************)
LoadDLL ==
  /\ stage = "Dependencies" /\ todo = {}
  /\ files[Oodle] \in {Missing, Genuine}
  /\ OodleLoaded' = (files[Oodle] = Genuine)
  /\ stage' = "Fetch"
  /\ UNCHANGED <<after, FConfig, bLoaded, RuntimeKey, todo, current, versionData, key,
                 config, externals, owner, launches>>

\* The hash is another: exit(0).
LoadDLLExits ==
  /\ stage = "Dependencies" /\ todo = {}
  /\ files[Oodle] \notin {Missing, Genuine}
  /\ Die

Goto(from, to) ==
  /\ stage = from
  /\ stage' = to
  /\ UNCHANGED <<after, FConfig, bLoaded, RuntimeKey, todo, current, OodleLoaded,
                 versionData, key, config, listed, files, excused, owner, launches>>

\* No AES key or no mappings URL.
FetchFails == Goto("Fetch", "Refused") /\ UNCHANGED mappingsFile

\* A file of the name the server gives is not downloaded again, whatever it holds.
MappingsThere == Goto("Fetch", "Mount") /\ mappingsFile # "none" /\ UNCHANGED mappingsFile
OpenMappings == Goto("Fetch", "Mappings") /\ mappingsFile = "none" /\ mappingsFile' = "cut"
NoMappings == Goto("Fetch", "Mount") /\ mappingsFile = "none" /\ UNCHANGED mappingsFile
CloseMappings == Goto("Mappings", "Mount") /\ mappingsFile' \in {"cut", "whole"}

\* Without the library the first compressed block, of the asset registry or of
\* global.utoc, throws in a callback that catches nothing.
DecompressThrows ==
  /\ stage \in {"Fetch", "Mount"}
  /\ ~OodleLoaded
  /\ Die

\* MountAsync, the key page and its OnGetKey, which loads once more.
OpenKeyPage ==
  /\ stage = "Mount"
  /\ stage' = "Key"
  /\ Load(FConfig, bLoaded)
  /\ UNCHANGED <<after, RuntimeKey, todo, current, OodleLoaded, versionData, key,
                 externals, owner, launches>>

-----------------------------------------------------------------------------
(***************************************************************************)
(* FOnCheckKey.  The version is asked for once per process, and only a     *)
(* good answer can refuse.  A key bound to nobody is bound by a request of *)
(* its own, whose answer may get lost when the server has already done it. *)
(***************************************************************************)
AskVersion ==
  IF versionData = "none" THEN versionData' \in {"current", "other", "failed"}
                          ELSE UNCHANGED versionData

\* Wrong: only the key in memory is set.
AcceptUnsaved(k) ==
  /\ FConfig' = [FConfig EXCEPT !.Key = k]
  /\ RuntimeKey' = k
  /\ stage' = "Home" /\ after' = "Home"

Accept(k) ==
  /\ FConfig' = [FConfig EXCEPT !.Key = k]
  /\ RuntimeKey' = k
  /\ Save /\ after' = "Home"

\* Outdated program, no answer, unknown key, or somebody else's.
KeyRefused ==
  /\ stage = "Key"
  /\ AskVersion
  /\ UNCHANGED <<stage, after, FConfig, bLoaded, RuntimeKey, todo, current,
                 OodleLoaded, key, config, externals, owner, launches>>

KeyFound(k) ==
  /\ stage = "Key"
  /\ AskVersion
  /\ versionData' # "other"
  /\ \/ /\ owner[k] = "mine"
        /\ Accept(k)
        /\ UNCHANGED key
     \/ /\ owner[k] = "free"
        /\ stage' = "Bind" /\ key' = k
        /\ UNCHANGED <<FConfig, RuntimeKey, after>>
  /\ UNCHANGED <<bLoaded, todo, current, OodleLoaded, config, externals, owner, launches>>

SetHWID ==
  /\ stage = "Bind"
  /\ owner[key] = "free"
  /\ owner' = [owner EXCEPT ![key] = "mine"]
  /\ Accept(key)
  /\ key' = NoKey
  /\ UNCHANGED <<bLoaded, todo, current, OodleLoaded, versionData, config, externals,
                 launches>>

\* Wrong: whatever the server said, the key is taken.
SetHWIDFailsUnseen ==
  /\ stage = "Bind"
  /\ UNCHANGED owner
  /\ Accept(key)
  /\ key' = NoKey
  /\ UNCHANGED <<bLoaded, todo, current, OodleLoaded, versionData, config, externals,
                 launches>>

\* The request or its answer is lost, or the server refuses.
SetHWIDFails ==
  /\ stage = "Bind"
  /\ \/ owner[key] = "free" /\ owner' = [owner EXCEPT ![key] = "mine"]
     \/ UNCHANGED owner
  /\ stage' = "Key" /\ key' = NoKey
  /\ UNCHANGED <<after, FConfig, bLoaded, RuntimeKey, todo, current, OodleLoaded,
                 versionData, config, externals, launches>>

StartStep ==
  \/ \E d \in Deps : Keep(d) \/ OpenDownload(d) \/ NoDownload(d)
  \/ Downloaded \/ DownloadFails \/ LoadDLL \/ LoadDLLExits
  \/ FetchFails \/ MappingsThere \/ OpenMappings \/ NoMappings \/ CloseMappings
  \/ DecompressThrows

SaveStep == SaveOpen \/ SaveWrite

KeyStep ==
  \/ KeyRefused \/ \E k \in Keys : KeyFound(k)
  \/ SetHWID \/ SetHWIDFails

Outside ==
  \/ Launch \/ LaunchRefused
  \/ \E d \in Deps : RemoveFile(d)
  \/ \E k \in Keys : OtherMachineBinds(k)

SessionNext == StartStep \/ OpenKeyPage \/ SaveStep \/ KeyStep \/ Outside \/ Close

\* The start runs in one callback, from its first line to its last.
SessionSpec ==
  /\ SessionInit /\ [][SessionNext]_sessionVars
  /\ WF_sessionVars(StartStep \/ OpenKeyPage \/ SaveStep)

-----------------------------------------------------------------------------
(***************************************************************************)
(* Properties.                                                             *)
(***************************************************************************)

\* A start that is done with the dependencies (OnLoadSaturn.cpp:68-80) uses the
\* version the server lists, wherever earlier processes died and however many
\* versions they slept through: another file only where the download itself failed
\* or the file had been removed.
ReadyMeansCurrent ==
  stage \in Ready => \A d \in Deps \ excused : files[d] = listed[d]

\* The next start finds what this process knows (Config.cpp:26-91): when no Save is
\* due, Config.json is whole and says what memory says.
ConfigIsMemory ==
  stage \in Ready => ConfigFile = "whole" /\ saved = FConfig

\* No page behind the key page without a key that is this machine's, whoever else
\* tried to bind it and whichever answers were lost; and an outdated program gets
\* there only if its one version request failed (OnCheckKey.ixx:32-99).
AcceptedIsEntitled ==
  (RuntimeKey # NoKey \/ stage = "Home") =>
    RuntimeKey \in Keys /\ owner[RuntimeKey] = "mine" /\ versionData \in {"current", "failed"}

\* FOnLoadSaturn comes to an end: the key page, a refusal, or the end of the process.
StartEnds == stage = "Dependencies" ~> stage \in {"Key", "Refused", "Down"}

=============================================================================
