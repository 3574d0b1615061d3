------------------------------- MODULE Swapper -------------------------------
(***************************************************************************)
(* The program from its start to a click on Convert: Session and Catalog   *)
(* with OnAddItem, which reads the clicked skin's package with the classes *)
(* of the mappings file (ZenPackage) and writes the program's own package  *)
(* with that skin's parts in its name map (NameMap) into the game, or takes *)
(* it out again.  How the game's files get there and back is SwapRevert;   *)
(* here a swap writes all of it or nothing, and a revert always succeeds.  *)
(***************************************************************************)
EXTENDS Catalog, ZenPackage, NameMap

VARIABLES
  Skin,     \* path of FContext::Loadout.Skin, or NoPath
  written,  \* the package that is in the game in place of its own, or NoPackage
  crashed   \* history: this process died of an exception or a null pointer

vars == <<sessionVars, catalogVars, zenVars, Skin, written, crashed>>

NoPath == "none"
NoPackage == [summary |-> <<>>, cells |-> <<>>]

ASSUME SwapperAssumption ==
  /\ NoPath \notin DOMAIN Packages
  /\ \A i \in DOMAIN Registry : Registry[i].path # NoPath

TypeOK ==
  /\ SessionTypeOK /\ CatalogTypeOK /\ ZenTypeOK
  /\ Skin \in {NoPath} \cup {Registry[i].path : i \in DOMAIN Registry}
  /\ (stage = "Convert" => Skin \in DOMAIN Packages)
  /\ (written # NoPackage => DOMAIN written.summary = {Offsets[k] : k \in DOMAIN Offsets})
  /\ crashed \in BOOLEAN

Init ==
  /\ SessionInit /\ CatalogInit /\ ZenInit
  /\ Skin = NoPath /\ written = NoPackage /\ crashed = FALSE

End ==
  /\ Die /\ CatalogReset /\ ZenReset
  /\ Skin' = NoPath
  /\ UNCHANGED written

Crash == End /\ crashed' = TRUE

CloseSaturn == stage # "Down" /\ End /\ UNCHANGED crashed

BeforeThePages ==
  /\ StartStep \/ SaveStep \/ KeyStep \/ Outside
  /\ crashed' = (crashed /\ stage' = "Down")
  /\ UNCHANGED <<catalogVars, zenVars, Skin, written>>

MountAsync ==
  /\ OpenKeyPage
  /\ RegisterTypesFromUsmap(mappingsFile = "whole")
  /\ UNCHANGED <<catalogVars, bundle, Exports, aligned, firstExport, Skin, written, crashed>>

OnThePages == CatalogStep /\ UNCHANGED <<zenVars, Skin, written, crashed>>

-----------------------------------------------------------------------------
(***************************************************************************)
(* OnAddItem.  The page asks for the flag, then converts or reverts.       *)
(***************************************************************************)
SaveTwice(flag) ==
  /\ FConfig' = [FConfig EXCEPT !.bHasSwappedSkin = flag]
  /\ Save /\ after' = "Save"

AddLoadoutItem ==
  /\ Idle /\ modals # {}
  /\ hiding' = IF FConfig.bHasSwappedSkin THEN "revert" ELSE "apply"
  /\ Skin' = GetItemById(currentId).path
  /\ UNCHANGED <<page, loaded, container, modals, currentId, Tab, ItemsToDisplay, catalogue,
                 source, early, bLoaded, RuntimeKey, todo, current, OodleLoaded, versionData,
                 key, config, externals, owner, launches, crashed>>

Revert ==
  /\ AddLoadoutItem
  /\ FConfig.bHasSwappedSkin
  /\ SaveTwice(FALSE)
  /\ written' = NoPackage
  /\ UNCHANGED zenVars

LoadPackage ==
  /\ AddLoadoutItem
  /\ ~FConfig.bHasSwappedSkin
  /\ OodleLoaded /\ Skin' \in DOMAIN Packages
  /\ stage' = "Convert"
  /\ MakePackage(Skin')
  /\ UNCHANGED <<FConfig, after, written>>

\* No library to decompress with, or no such package in the game.
LoadPackageDies ==
  /\ Idle /\ modals # {} /\ ~FConfig.bHasSwappedSkin
  /\ ~OodleLoaded \/ GetItemById(currentId).path \notin DOMAIN Packages
  /\ Crash

Export == Packages[Skin].exports[Head(bundle).index]

ProcessExports ==
  /\ stage = "Convert" /\ bundle # <<>>
  /\ CreateExport(Export) \/ TrySerializeExport(Export)
  /\ UNCHANGED <<sessionVars, catalogVars, Skin, written, crashed>>

ProcessExportsDies ==
  /\ stage = "Convert" /\ bundle # <<>>
  /\ CreateDies(Export) \/ SerializeDies(Export)
  /\ Crash

\* What GetProperty("BaseCharacterParts") gives; no value is an exception.
CharacterParts ==
  IF firstExport # 0 /\ Exports[firstExport].read = "right"
  THEN Packages[Skin].exports[firstExport].parts ELSE {}

GetPropertyDies ==
  /\ stage = "Convert" /\ bundle = <<>>
  /\ CharacterParts = {}
  /\ Crash

PatchFortnite ==
  /\ stage = "Convert" /\ bundle = <<>>
  /\ \E parts \in CharacterParts :
       written' = SerializeAsByteArray(AssetData, Renamed(parts))
  /\ SaveTwice(TRUE)
  /\ Exports' = <<>> /\ firstExport' = 0 /\ aligned' = TRUE
  /\ UNCHANGED <<Objects, ObjectArray, bundle, bLoaded, RuntimeKey, todo, current, OodleLoaded,
                 versionData, key, config, externals, owner, launches, catalogVars, Skin, crashed>>

\* The chunk has no info, or a file cannot be written: OnAddItem does not look at the
\* result.
PatchFortniteFails ==
  /\ stage = "Convert" /\ bundle = <<>>
  /\ CharacterParts # {}
  /\ Save /\ after' = "Home"
  /\ Exports' = <<>> /\ firstExport' = 0 /\ aligned' = TRUE
  /\ UNCHANGED <<Objects, ObjectArray, bundle, FConfig, bLoaded, RuntimeKey, todo, current,
                 OodleLoaded, versionData, key, config, externals, owner, launches, catalogVars,
                 Skin, written, crashed>>

Converting ==
  \/ Revert \/ LoadPackage \/ LoadPackageDies
  \/ ProcessExports \/ ProcessExportsDies
  \/ GetPropertyDies \/ PatchFortnite \/ PatchFortniteFails

Next == BeforeThePages \/ MountAsync \/ OnThePages \/ Converting \/ CloseSaturn

\* The start runs in one callback, from its first line to its last.
OnLoadSaturn ==
  \/ stage \in Starting /\ BeforeThePages /\ (StartStep \/ SaveStep)
  \/ stage = "Mount" /\ MountAsync

Spec == Init /\ [][Next]_vars /\ WF_vars(OnLoadSaturn)

-----------------------------------------------------------------------------
(***************************************************************************)
(* Properties.                                                             *)
(***************************************************************************)
\* What the game makes of a skin: its definition is serialized before any other
\* export, every export that has values is of a class the mappings declare with
\* properties of its own, only the last has bytes behind them, and every script object
\* is there, and under one kind.
ScriptRefs(path, field) ==
  {e \in {Packages[path].exports[i][field] : i \in DOMAIN Packages[path].exports} : IsScript(e)}

Entry(path, k) == Packages[path].exports[Packages[path].bundle[k].index]

Serializes(path) == {k \in DOMAIN Packages[path].bundle : Packages[path].bundle[k].command = "Serialize"}

Definition(path) == CHOOSE k \in Serializes(path) : \A j \in Serializes(path) : k <= j

WellFormed(path) ==
  /\ path \in DOMAIN Packages
  /\ Serializes(path) # {} /\ Entry(path, Definition(path)).parts # {}
  /\ \A k \in Serializes(path) :
       LET export == Entry(path, k)
       IN  /\ export.template # "null" /\ IsScript(export.class)
           /\ export.tail => \A j \in Serializes(path) : j <= k
           /\ export.values => \E s \in DOMAIN Schemas : Schemas[s].name = export.class /\ Schemas[s].own
  /\ UNION {ScriptRefs(path, f) : f \in {"template", "class", "outer"}} \subseteq ScriptObjects
  /\ \A p \in DOMAIN Packages :
       ScriptRefs(path, "class") \cap (ScriptRefs(p, "template") \cup ScriptRefs(p, "outer")) = {}

\* What should stand in place of a name of the program's package.
Shown(parts, old) ==
  LET At(list) == {k \in DOMAIN parts \cap DOMAIN list : list[k] = old}
  IN  CASE At(CharacterPartPathsToSearch) # {} -> parts[CHOOSE k \in At(CharacterPartPathsToSearch) : TRUE].path
        [] At(CharacterPartNamesToSearch) # {} -> parts[CHOOSE k \in At(CharacterPartNamesToSearch) : TRUE].name
        [] OTHER -> old

\* A click on Convert ends in a written package or an answer, not in the end of the
\* process: with the library and whole mappings, a package the game makes is read
\* whatever was read before it in this process (LoadPackage, ProcessExports,
\* GetProperty(...) in FortniteFunctionLibrary.cpp:319-325).
ConvertDiesOnly ==
  [][(crashed' /\ ~crashed) =>
       \/ mappingsFile # "whole" \/ ~OodleLoaded
       \/ ~WellFormed(GetItemById(currentId).path)]_vars

\* The game shows the skin that was clicked: what PatchFortnite wrote reads back as
\* the program's package, every section where the summary says it is, with the parts
\* of the clicked skin's definition in place of as many placeholders and every other
\* name as it was (FortniteFunctionLibrary.cpp:327-345, ZenPackageReader.cpp:301-329).
\* So for names without wide characters.
ConversionShowsClicked ==
  [][(stage = "Convert" /\ FConfig'.bHasSwappedSkin /\ WellFormed(GetItemById(currentId).path)) =>
       LET path  == GetItemById(currentId).path
           parts == CHOOSE p \in Entry(path, Definition(path)).parts : TRUE
           view  == MakeView(written')
       IN  (\A k \in DOMAIN parts : {parts[k].path, parts[k].name} \cap WideNames = {}) =>
             /\ view.ok /\ view.sections = MakeView(AssetData).sections
             /\ \A i \in DOMAIN AssetNames : view.names[i] = Shown(parts, AssetNames[i])]_vars

=============================================================================
