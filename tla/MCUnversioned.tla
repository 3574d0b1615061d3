---------------------------- MODULE MCUnversioned ----------------------------
(* Small instances of Unversioned for TLC. *)
EXTENDS Unversioned

\* An array of two between single properties; properties of its own, none in the
\* middle class, and a base class's; no property of its own; seven in a row.
SomeClasses ==
  { << <<1, 2, 1>> >>,
    << <<2>>, <<>>, <<1, 2>> >>,
    << <<>>, <<1, 1>> >>,
    << <<1, 1, 1, 1, 1, 1, 1>> >> }
=============================================================================
