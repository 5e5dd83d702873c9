---------------------------- MODULE MCValidation ----------------------------
(***************************************************************************)
(* BindingValidation for TLC: names on both sides of every line the two    *)
(* validators draw.                                                        *)
(***************************************************************************)
EXTENDS BindingValidation

SomeLetters == {"x", "kube", "default", "argocd", "platform", "system"}

\* The webhook lets <<"x", "", "x">> and <<"x", "default">> pass.
SomeNames ==
    {<<"">>, <<"", "x">>, <<"X">>, <<"x", "", "x">>, <<"default", "x">>,
     <<"x", "default">>, <<"argocd">>, <<"platform", "system", "x">>}

\* "bdchatham, acme" and " acme,a_b,"
SomeFlags ==
    LET b == [text |-> "bdchatham", padded |-> FALSE]
        a == [text |-> "acme", padded |-> TRUE]
        m == [text |-> "a_b", padded |-> FALSE]
        e == [text |-> "", padded |-> FALSE]
    IN {{b, a}, {a, m, e}}
=============================================================================
