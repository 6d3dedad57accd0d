----------------------------- MODULE MCTabNav -----------------------------
(* Instances of TabNav for TLC. *)
EXTENDS TabNav

Plain == [doc : Docs, frag : {0}]
Everything == [doc : Docs, frag : 0..MaxFrag]
OneDoc == {CHOOSE url \in Plain : TRUE}
===========================================================================
