------------------------------ MODULE MCSwapper ------------------------------
(* A small instance of Swapper for TLC: skins, and what can be wrong with    *)
(* their packages.                                                            *)
EXTENDS Swapper

Asset(id, skin) == [id |-> id, skin |-> skin, path |-> "/Game/" \o id]

\* An asset of another class, a skin without a name, one named TBD.
MCRegistry == <<Asset("plain", TRUE), Asset("weapon", FALSE), Asset("unnamed", TRUE),
                Asset("tbd", TRUE), Asset("forged", TRUE), Asset("odd", TRUE), Asset("gone", TRUE)>>
MCNameOf == [id \in {"plain", "weapon", "unnamed", "tbd", "forged", "odd", "gone"} |->
               CASE id = "unnamed" -> "Unknown" [] id = "tbd" -> "TBD" [] OTHER -> id]
MCFilters == {"one", "nothing"}
MCMatches == [f \in MCFilters |-> IF f = "one" THEN {"tbd", "unnamed", "gone"} ELSE {}]

MCScriptObjects == {"Definition", "Default__Definition", "Extra", "Default__Extra", "Thing"}

\* Definition comes before its super class, and Extra has no properties of its own.
MCSchemas == <<[name |-> "Definition", super |-> "Thing", own |-> TRUE, uses |-> <<"Path">>],
               [name |-> "Path", super |-> "", own |-> TRUE, uses |-> <<>>],
               [name |-> "Extra", super |-> "Thing", own |-> FALSE, uses |-> <<>>],
               [name |-> "Thing", super |-> "", own |-> TRUE, uses |-> <<"Path">>]>>

Part(k) == [path |-> "/Game/part" \o ToString(k), name |-> "part" \o ToString(k)]
Def(parts) == [template |-> "Default__Definition", class |-> "Definition", outer |-> "null",
               values |-> TRUE, tail |-> FALSE, parts |-> {parts}]
Side(class, values) == [template |-> "Default__Extra", class |-> class, outer |-> "export",
                        values |-> values, tail |-> FALSE, parts |-> {}]
C(i) == [command |-> "Create", index |-> i]
W(i) == [command |-> "Serialize", index |-> i]

\* "forged" has no parts, of a class that stands for an object elsewhere; "odd" has
\* bytes between its exports, and a class nobody knows; "gone" has no package.
MCPackages == [path \in {"/Game/plain", "/Game/tbd", "/Game/forged", "/Game/odd"} |->
  CASE path = "/Game/plain" ->
         [exports |-> <<Def(<<Part(1), Part(2), Part(3)>>)>>, bundle |-> <<C(1), W(1)>>]
    [] path = "/Game/tbd" ->
         [exports |-> <<Side("Extra", FALSE), Def(<<Part(4)>>)>>, bundle |-> <<C(1), C(2), W(2), W(1)>>]
    [] path = "/Game/forged" ->
         [exports |-> <<[Side("Default__Extra", FALSE) EXCEPT !.template = "Default__Definition"],
                        [Side("Extra", TRUE) EXCEPT !.template = "null"]>>,
          bundle  |-> <<C(1), W(1), C(2), W(2)>>]
    [] OTHER ->
         [exports |-> <<[Def(<<Part(1)>>) EXCEPT !.tail = TRUE], Side("Definition", TRUE),
                        Side("Strange", FALSE)>>,
          bundle  |-> <<C(1), W(1), C(2), W(2), C(3), W(3)>>]]

MCLenOf == [n \in {"/Game/000", "/Game/111", "000", "111", "CharacterParts", ""}
                   \cup {Part(k).path : k \in 1 .. 4} \cup {Part(k).name : k \in 1 .. 4} |->
              CASE n \in {"000", "111"} -> 3 [] n \in {Part(k).name : k \in 1 .. 4} -> 1
                [] n = "CharacterParts" -> 1 [] OTHER -> 2]
MCAssetNames == <<"/Game/000", "CharacterParts", "/Game/111", "000", "111">>
Paths == <<"/Game/000", "/Game/111">>
Names == <<"000", "111">>

\* Bound: no page looks at a dependency other than Oodle or at the version's answer, so
\* the pages are walked only where the others are new and the answer was a good one.
PagesAlone ==
  page # "none" =>
    versionData = "current" /\ \A d \in Deps \ {Oodle} : listed[d] = MaxVersion /\ d \notin excused
Sections == <<1, 0, 1, 2, 4, 1, 1, 1, 2>>
=============================================================================
