----------------------------- MODULE Credential -----------------------------
(***************************************************************************)
(* FileAuthorization of soc/workers/common.py: the credential a worker     *)
(* sends, read again when its file changes.  The provisioning job replaces *)
(* or removes the file at any time, also between the worker's stat and its *)
(* read.                                                                   *)
(*                                                                         *)
(* A file is its stamp (inode, size and time of change), which no two      *)
(* versions share, and the token in it: Malformed when it has whitespace   *)
(* or nothing in it, and NoFile when there is none.  A token caught        *)
(* half-written is Malformed or another token.                             *)
(***************************************************************************)
EXTENDS Naturals, Sequences

Malformed == "malformed"
NoFile == "no file"

\* FileAuthorization.__init__: the first file must be readable.
NewCredential(token) ==
  [file |-> [stamp |-> 1, token |-> token], _stamp |-> 1, _value |-> token, pending |-> <<>>]

\* The provisioning job writes the next version of the file.
Provision(c, token) == [c EXCEPT !.file = [stamp |-> @.stamp + 1, token |-> token]]

\* Mutant: the file is read first and its stamp taken afterwards.
ReloadReadFirst(c) ==
  CASE c.pending = <<>> -> IF c.file.token = NoFile \/ c.file.stamp = c._stamp THEN c
                           ELSE [c EXCEPT !.pending = <<c.file.token>>]
    [] OTHER -> IF c.pending[1] = Malformed \/ c.file.token = NoFile THEN [c EXCEPT !.pending = <<>>]
                ELSE [c EXCEPT !.pending = <<>>, !._value = c.pending[1], !._stamp = c.file.stamp]

\* __call__ and _reload in two steps: the stat, which ends the call when the
\* file is gone or has the stamp of the value; and the read, which keeps value
\* and stamp when there is no token to be read.
Reload(c) ==
  CASE c.pending = <<>> -> IF c.file.token = NoFile \/ c.file.stamp = c._stamp THEN c
                           ELSE [c EXCEPT !.pending = <<c.file.stamp>>]
    [] OTHER -> IF c.file.token \in {Malformed, NoFile} THEN [c EXCEPT !.pending = <<>>]
                ELSE [c EXCEPT !.pending = <<>>, !._value = c.file.token, !._stamp = c.pending[1]]
=============================================================================
