----------------------------- MODULE ProcedureFiles -----------------------------
(***************************************************************************)
(* The list of procedures that main turns into jobs                        *)
(* (app/oac-tree-server/utils.cpp).  A path is a sequence of tokens, its   *)
(* extension the last one; a directory is the sequence of its entries, in  *)
(* the order the iterator happens to give them: none is specified.         *)
(***************************************************************************)
EXTENDS Naturals, SequencesExt

CONSTANT ParseProcedureFile     \* External (oac-tree): [path -> procedure]

kProcedureExtension == <<".xml">>

EndsWith(str, end) == IsSuffix(end, str)

\* The files of the directory, if the option gives one, before the arguments.
GetProcedureFilenames(dir, positional_args) ==
    LET entries == SelectSeq(dir, LAMBDA entry :
                       /\ entry.is_regular_file
                       /\ EndsWith(entry.path, kProcedureExtension))
    IN  [i \in DOMAIN entries |-> entries[i].path] \o positional_args

GetProcedureList(dir, positional_args) ==
    LET filenames == GetProcedureFilenames(dir, positional_args)
    IN  [i \in DOMAIN filenames |-> ParseProcedureFile[filenames[i]]]

=============================================================================
