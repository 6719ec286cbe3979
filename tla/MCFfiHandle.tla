---------------------------- MODULE MCFfiHandle ----------------------------
(***************************************************************************)
(* Two threads over an identity, a session, a group and a streaming         *)
(* encryptor; a callback may call the library once more.                    *)
(***************************************************************************)
EXTENDS FfiHandle, TLC

CONSTANTS t1, t2, id, ses, grp, str

MCKind == (id :> "identity") @@ (ses :> "session") @@ (grp :> "group") @@ (str :> "stream")
=============================================================================
