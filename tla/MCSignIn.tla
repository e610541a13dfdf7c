----------------------------- MODULE MCSignIn -----------------------------
(* Two browsers, a local account and one of WeChat. *)
EXTENDS SignIn, TLC

CONSTANTS c1, c2, ann, wei, w

MCWeChatName == [s \in {w} |-> wei]
MCLimit      == [k \in Keys |-> IF k = "wechat" THEN 2 ELSE 1]
MCWindow     == [k \in Keys |-> IF k = "qr" THEN 0 ELSE 1]
MCSymmetry   == Permutations({c1, c2})
===========================================================================
