----------------------------- MODULE Documents ------------------------------
(***************************************************************************)
(* Document.save() of Mongoose writes ($set) only the paths whose value    *)
(* differs from the one loaded.  No schema of the repository has a version *)
(* key (versionKey: false), so nothing detects that the stored document    *)
(* changed meanwhile.                                                      *)
(***************************************************************************)

\* Mutant: a save that writes the whole document back.
SetAlways(old, new, current) == new

\* The stored value of a path after the save of a document that loaded old
\* and now holds new, where the collection holds current.
SetIfModified(old, new, current) == IF new # old THEN new ELSE current
=============================================================================
