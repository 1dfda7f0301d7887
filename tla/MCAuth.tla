------------------------------- MODULE MCAuth -------------------------------
(* Instances of Auth for TLC: two ids for reset links, one of each other   *)
(* kind.                                                                   *)
EXTENDS Auth, TLC

CONSTANTS s1, s2, x1, x2, r1, r2, ver, cha

MCKindOf == [l \in Links |-> IF l = ver THEN "verification"
                             ELSE IF l = cha THEN "challenge" ELSE "reset"]

MCLinkTtl == [k \in Kinds |-> 1]

\* The links and the password; the ends of an account and of a session; second
\* factors with everything they meet.
MCHistories ==
    LET second == {"mfa", "enrol", "confirm", "disable", "regenerate"}
        basic == {"signup", "verify", "login", "refresh"} IN
    {basic \union {"resend", "forgot", "reset", "change", "everywhere"},
     basic \union {"forgot", "reset", "delete", "purge", "device", "logout", "change"},
     basic \union {"mfa", "enrol", "confirm", "disable", "everywhere"},
     (basic \ {"refresh"}) \union {"forgot", "reset"} \union second}

MCSymmetry == Permutations({s1, s2}) \union Permutations({x1, x2}) \union Permutations({r1, r2})
=============================================================================
