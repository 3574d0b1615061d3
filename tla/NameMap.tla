------------------------------- MODULE NameMap -------------------------------
(***************************************************************************)
(* The package that is written: the one the program carries in itself      *)
(* (ASSET_DATA), in whose name map placeholders give way to the names of   *)
(* the clicked skin's parts.  A package is a summary of offsets and the    *)
(* cells behind it; cells stand for bytes, and offsets count them.  The    *)
(* number of names never changes, so of the name map's hashes and headers  *)
(* one cell is enough, which holds the headers.                            *)
(***************************************************************************)
EXTENDS Integers, Sequences, SequencesExt

CONSTANTS
  LenOf,                       \* by name: its characters
  WideNames,                   \* names with a character above CHAR_MAX
  CharacterPartPathsToSearch,  \* placeholders, in their order
  CharacterPartNamesToSearch,
  AssetNames,                  \* the name map of ASSET_DATA
  AssetSections                \* the lengths of its sections, see Offsets

(***************************************************************************)
(* Section 1 is what follows the name map up to the first of these         *)
(* offsets, section k + 1 is between the k-th and the next, the last, from *)
(* HeaderSize on, is the exports.                                          *)
(***************************************************************************)
Offsets == <<"ImportedPublicExportHashesOffset", "ImportMapOffset", "ExportMapOffset",
             "ExportBundleEntriesOffset", "DependencyBundleHeadersOffset",
             "DependencyBundleEntriesOffset", "ImportedPackageNamesOffset", "HeaderSize">>

ASSUME NameMapAssumption ==
  /\ Len(AssetSections) = Len(Offsets) + 1
  /\ Len(CharacterPartPathsToSearch) = Len(CharacterPartNamesToSearch)

CanSafelyCastToString(name) == name \notin WideNames

Total(numbers) == FoldLeft(LAMBDA sum, n : sum + n, 0, numbers)

\* Two functions count a name map's string bytes, and differ on wide names.
GetNameMapStringBytes(names) ==
  Total([i \in DOMAIN names |-> LenOf[names[i]] * (IF CanSafelyCastToString(names[i]) THEN 1 ELSE 2)])
GetTotalStringBytes(names) == Total([i \in DOMAIN names |-> LenOf[names[i]]])

NumBytes(name) == LenOf[name] * (IF CanSafelyCastToString(name) THEN 1 ELSE 2)

Least(a, b) == IF a < b THEN a ELSE b

Cells(of, n) == [i \in 1 .. n |-> <<of, i>>]

SaveToBuffer(names) ==
  <<<<"names", [bytes |-> GetTotalStringBytes(names), headers |-> [i \in DOMAIN names |-> names[i]]]>>>>
    \o FoldLeft(LAMBDA cells, name : cells \o Cells(name, NumBytes(name)), <<>>, names)

\* A name whose bytes do not fit into the announced ones ends the loop; it and all
\* behind it stay empty.
LoadNameBatch(cells) ==
  LET headers == cells[1][2].headers
      strings == SubSeq(cells, 2, 1 + cells[1][2].bytes)
      Ends(i) == Total([j \in 1 .. i |-> NumBytes(headers[j])])
      name(i) == LET text == SubSeq(strings, Ends(i) - NumBytes(headers[i]) + 1, Ends(i))
                 IN  IF text = Cells(headers[i], NumBytes(headers[i])) THEN headers[i] ELSE "garbled"
  IN  [i \in DOMAIN headers |-> IF Ends(i) > Len(strings) THEN "" ELSE name(i)]

\* What a reader of the package gets: the names, the sections its offsets name, and
\* whether its bundle entries are two for each export.
MakeView(package) ==
  LET at(k) == IF k = 0 THEN 1 + package.cells[1][2].bytes
               ELSE IF k > Len(Offsets) THEN Len(package.cells)
               ELSE package.summary[Offsets[k]]
      section(k) == SubSeq(package.cells, at(k - 1) + 1, Least(at(k), Len(package.cells)))
  IN  [names    |-> LoadNameBatch(package.cells),
       sections |-> [k \in 1 .. Len(Offsets) + 1 |-> section(k)],
       ok       |-> Len(section(5)) = 2 * Len(section(4))]

-----------------------------------------------------------------------------
(***************************************************************************)
(* PatchFortnite's renaming, and SerializeAsByteArray.                     *)
(***************************************************************************)
\* Wrong: every entry that is the placeholder or its successor.
SetNameAll(names, old, new) ==
  [i \in DOMAIN names |-> IF names[i] = old \/ (i > 1 /\ names[i - 1] = old) THEN new ELSE names[i]]

\* The first entry of that name, if there is one.
SetName(names, old, new) ==
  [i \in DOMAIN names |->
     IF names[i] = old /\ \A j \in 1 .. i - 1 : names[j] # old THEN new ELSE names[i]]

\* Parts beyond the placeholders are left out.
Renamed(parts) ==
  LET Used == SubSeq(parts, 1, Least(Len(parts), Len(CharacterPartNamesToSearch)))
      rename(names, k) ==
        SetName(SetName(names, CharacterPartPathsToSearch[k], Used[k].path),
                CharacterPartNamesToSearch[k], Used[k].name)
  IN  FoldLeft(rename, AssetNames, [k \in DOMAIN Used |-> k])

AssetData ==
  LET names == SaveToBuffer(AssetNames)
      upTo(k) == Len(names) + Total(SubSeq(AssetSections, 1, k))
  IN  [summary |-> [f \in {Offsets[k] : k \in DOMAIN Offsets} |->
                      upTo(CHOOSE k \in DOMAIN Offsets : Offsets[k] = f)],
       cells   |-> names \o FoldLeft(LAMBDA cells, k : cells \o Cells(Offsets[(k % Len(Offsets)) + 1], AssetSections[k]),
                                     <<>>, [k \in DOMAIN AssetSections |-> k])]

\* Wrong: HeaderSize, the first field of the summary, is not corrected.
ShiftedButHeader(summary, difference) ==
  [f \in DOMAIN summary |-> IF f = "HeaderSize" THEN summary[f] ELSE summary[f] - difference]

Shifted(summary, difference) == [f \in DOMAIN summary |-> summary[f] - difference]

\* The summary is corrected by the difference of the old and the new string bytes;
\* behind it come the new name map and what lay behind the old one.
SerializeAsByteArray(original, names) ==
  LET old == LoadNameBatch(original.cells)
  IN  [summary |-> Shifted(original.summary, GetNameMapStringBytes(old) - GetNameMapStringBytes(names)),
       cells   |-> SaveToBuffer(names)
                     \o SubSeq(original.cells, Len(SaveToBuffer(old)) + 1, Len(original.cells))]

=============================================================================
