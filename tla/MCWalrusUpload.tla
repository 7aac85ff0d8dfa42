---------------------------- MODULE MCWalrusUpload ----------------------------
(* Two uploads, and a batch that may claim both of them. *)
EXTENDS WalrusUpload

CONSTANTS face, coat, t1, t2

MCGroups == {{face, coat}}
=============================================================================
