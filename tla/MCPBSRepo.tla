----------------------------- MODULE MCPBSRepo -----------------------------
(* Instances of PBSRepo for TLC. *)
EXTENDS PBSRepo

\* The spec is complete, takes the fingerprint from the Secret, or takes the
\* host and PBS namespace from the Secret.
SomeSpecs ==
    {[fingerprint |-> f, place |-> "right", bootstrap |-> b] :
        f \in {"", "right"}, b \in BOOLEAN}
    \cup {[fingerprint |-> "right", place |-> "", bootstrap |-> FALSE]}
PlainSpec == {[fingerprint |-> "right", place |-> "right", bootstrap |-> FALSE]}

GoodSecret == [found |-> TRUE, token |-> "right", fingerprint |-> "right", place |-> "right"]
\* Usable, without the settings the spec may have, stale, or not there.
SomeSecrets == {GoodSecret, NoSecret,
                [GoodSecret EXCEPT !.fingerprint = "", !.place = ""],
                [GoodSecret EXCEPT !.fingerprint = "wrong", !.place = "wrong"]}
OneSecret == {GoodSecret}

Token(t) == [found |-> TRUE, token |-> t, fingerprint |-> "", place |-> ""]
SomeBootstraps == {Token("right"), Token("wrong"), NoSecret}
OneBootstrap == {Token("right")}
=============================================================================
