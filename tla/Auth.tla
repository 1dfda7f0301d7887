-------------------------------- MODULE Auth --------------------------------
(***************************************************************************)
(* Signing in: clipforge/auth/service.py (AuthService), auth/mfa.py        *)
(* (MfaMixin) and the routes of api/routes/auth.py over the auth store.    *)
(*                                                                         *)
(* One identity.  A request is a chain of statements, each a transaction   *)
(* of its own; a request that fails or whose process dies between two of   *)
(* them leaves what it had written (Abort).  The routes are coroutines     *)
(* that never await inside the service, so one API process runs one        *)
(* handler at a time (Serial); the check of the caller's session is a      *)
(* dependency in another thread and comes earlier (Admit).  Several        *)
(* processes on one database are Serial = FALSE.                           *)
(*                                                                         *)
(* Times are remaining ticks; a handler is short next to any of them, so   *)
(* the clock moves between handlers.  Rate limits refuse a request before  *)
(* it does anything and are left out, as are mail and the audit trail.     *)
(***************************************************************************)
EXTENDS Integers, FiniteSets

CONSTANTS
    Slots,        \* requests in flight
    Sessions,     \* ids of session rows
    Links,        \* ids of rows in auth_tokens
    KindOf,       \* id -> the kind of link it is for
    Factors,      \* ids of authenticator factors
    Codes,        \* one set of recovery codes
    Devices,      \* device cookies
    NoSession, NoLink,
    Serial,       \* TRUE: one API process
    RefreshTtl,   \* refresh_ttl_s
    SessionMax,   \* session_max_s
    LinkTtl,      \* kind of link -> how long it can be used
    LockS,        \* lockout_s
    Grace,        \* deletion_grace_s
    MaxFailed,    \* max_failed_attempts
    RequireVerified, \* require_verified_email
    MaxPasswords, \* bound on the passwords ever set
    MaxTokens,    \* bound on the refresh tokens of a session
    Histories,    \* bound: sets of requests, one of which all are taken from
    MaxWaiting,   \* bound on requests admitted and not begun
    MaxAborts     \* bound on requests cut short

Kinds == {"verification", "reset", "challenge"}

ASSUME NamesAssumption == NoSession \notin Sessions /\ NoLink \notin Links /\ Devices # {}

ASSUME BoundsAssumption ==
    /\ Serial \in BOOLEAN /\ RequireVerified \in BOOLEAN
    /\ RefreshTtl \in Nat \ {0} /\ SessionMax \in Nat \ {0}
    /\ KindOf \in [Links -> Kinds]
    /\ LinkTtl \in [Kinds -> Nat \ {0}]
    /\ LockS \in Nat \ {0} /\ Grace \in Nat \ {0}
    /\ MaxFailed \in Nat \ {0}
    /\ MaxPasswords \in Nat \ {0} /\ MaxTokens \in Nat \ {0} /\ MaxAborts \in Nat
    /\ MaxWaiting \in Nat

VARIABLES
    ident,    \* the row of auth_identities
    sess,     \* rows of auth_sessions
    links,    \* rows of auth_tokens
    factors,  \* rows of auth_mfa_factors
    unspent,  \* factors whose current code has not been used
    codes,    \* rows of auth_recovery_codes
    req,      \* what each request is doing
    aborts,
    asked,    \* the requests of this history
    hist      \* what happened, for the properties

vars == <<ident, sess, links, factors, unspent, codes, req, aborts, asked, hist>>

Statuses == {"absent", "pending", "active", "pending_deletion", "deleted"}

\* IdentityStatus.can_log_in
CanLogIn(i) == i.status \in {"pending", "active"}

Identities ==
    [status : Statuses, verified : BOOLEAN, password : 0..MaxPasswords,
     fails : 0..MaxFailed, lock : 0..LockS, grace : 0..Grace]

NoIdentity == [status |-> "absent", verified |-> FALSE, password |-> 0,
               fails |-> 0, lock |-> 0, grace |-> 0]

\* A row is open until it is revoked or runs out; its tokens are known longer.
\* `epoch` is the password the account had when the session was begun or when
\* it last set one, `gated` whether a factor was active then: not in the row.
SessionRows ==
    [open : BOOLEAN, cur : 0..MaxTokens,
     prev : 0..MaxTokens, ttl : Nat, ceiling : Nat, device : Devices,
     mfa : BOOLEAN, epoch : 0..MaxPasswords, gated : BOOLEAN,
     minted : 0..MaxTokens, spent : SUBSET (1..MaxTokens)]

NoRow(d) == [open |-> FALSE, cur |-> 0, prev |-> 0, ttl |-> 0, ceiling |-> 0,
             device |-> d, mfa |-> FALSE, epoch |-> 0, gated |-> FALSE,
             minted |-> 0, spent |-> {}]

\* revoked_at is set, or the time is up; only the tokens still matter.
Closed(r) == [NoRow(r.device) EXCEPT !.cur = r.cur, !.prev = r.prev,
                                     !.minted = r.minted, !.spent = r.spent]

\* Session.active
Live(x) == sess[x].open

\* VerificationToken.usable: neither used nor expired.
Usable(l) == links[l].ttl > 0

\* mfa_required
Gated == \E f \in Factors : factors[f] = "active"

\* Requests that only a live session may make, and those that ask for the
\* password again.
Guarded == {"everywhere", "change", "delete", "device", "enrol", "confirm",
            "disable", "regenerate"}

Steps == {"idle", "admitted", "links", "link", "spend", "read", "save", "gate",
          "factor", "session", "rotate", "list", "revoke_one", "revoke",
          "enrol", "drop", "codes"}

Ops == Guarded \union {"none", "signup", "resend", "forgot", "verify", "reset",
                       "login", "mfa", "refresh", "logout", "purge"}

Requests ==
    [op : Ops, step : Steps, sid : Sessions \union {NoSession},
     link : Links \union {NoLink}, row : Identities, copy : SessionRows,
     right : BOOLEAN, todo : SUBSET Sessions]

Idle == [op |-> "none", step |-> "idle", sid |-> NoSession, link |-> NoLink,
         row |-> NoIdentity, copy |-> NoRow(CHOOSE d \in Devices : TRUE),
         right |-> FALSE, todo |-> {}]

TypeOK ==
    /\ ident \in Identities
    /\ sess \in [Sessions -> SessionRows]
    /\ links \in [Links -> [ttl : Nat, opened : Nat]]
    /\ factors \in [Factors -> {"absent", "unconfirmed", "active"}]
    /\ unspent \in SUBSET Factors
    /\ codes \in [Codes -> {"absent", "unspent", "spent"}]
    /\ req \in [Slots -> Requests]
    /\ aborts \in 0..MaxAborts
    /\ asked \in Histories
    /\ hist \in [doubled : BOOLEAN, keptOpen : BOOLEAN, uncoded : BOOLEAN]

Init ==
    /\ ident = NoIdentity
    /\ sess = [x \in Sessions |-> Idle.copy]
    /\ links = [l \in Links |-> [ttl |-> 0, opened |-> 0]]
    /\ factors = [f \in Factors |-> "absent"]
    /\ unspent = {}
    /\ codes = [c \in Codes |-> "absent"]
    /\ req = [s \in Slots |-> Idle]
    /\ aborts = 0
    /\ asked \in Histories
    /\ hist = [doubled |-> FALSE, keptOpen |-> FALSE, uncoded |-> FALSE]

-----------------------------------------------------------------------------
(* The flow of a request.                                                  *)

InHandler(s) == req[s].step \notin {"idle", "admitted"}

\* The event loop is free to begin s's handler.
Free(s) == Serial => \A t \in Slots \ {s} : ~InHandler(t)

Begins(s, op) == req[s].step = "idle" /\ Free(s) /\ op \in asked

Admitted(s, op) == req[s].step = "admitted" /\ req[s].op = op /\ Free(s)

At(s, step) == req[s].step = step

Go(s, step) == req' = [req EXCEPT ![s].step = step]

Start(s, r) == req' = [req EXCEPT ![s] = r]

Answer(s) == req' = [req EXCEPT ![s] = Idle]

\* live_principal: the caller's access token is of a session that is alive.
\* Which one, only a password change asks later.
Admit(s, op, x) ==
    /\ req[s].step = "idle" /\ Live(x) /\ op \in asked
    /\ Cardinality({t \in Slots : At(t, "admitted")}) < MaxWaiting
    /\ Start(s, [Idle EXCEPT !.op = op, !.step = "admitted",
                             !.sid = IF op = "change" THEN x ELSE NoSession])
    /\ UNCHANGED <<ident, sess, links, factors, unspent, codes, aborts, asked, hist>>

-----------------------------------------------------------------------------
(* Links: verification, reset, and the challenge of a second factor.       *)

LinkKind(op) == IF op = "login" THEN "challenge"
                ELSE IF op = "forgot" THEN "reset" ELSE "verification"

\* sign_up of a free address.
SignUp(s) ==
    /\ Begins(s, "signup") /\ ident.status = "absent"
    /\ ident' = [NoIdentity EXCEPT !.status = "pending", !.password = 1]
    /\ Start(s, [Idle EXCEPT !.op = "signup", !.step = "links"])
    /\ UNCHANGED <<sess, links, factors, unspent, codes, aborts, asked, hist>>

\* resend_verification, request_password_reset.  A purged row has lost its
\* address and is not found.
AskForLink(s, op) ==
    /\ Begins(s, op) /\ ident.status \notin {"absent", "deleted"}
    /\ op = "resend" => ~ident.verified
    /\ Start(s, [Idle EXCEPT !.op = op, !.step = "links"])
    /\ UNCHANGED <<ident, sess, links, factors, unspent, codes, aborts, asked, hist>>

\* invalidate_tokens: earlier links of the kind are marked used.  A login comes
\* here when a factor is active (mfa_required, _issue_challenge).
Invalidate(s) ==
    /\ \/ At(s, "links")
       \/ At(s, "gate") /\ Gated
    /\ links' = [l \in Links |->
            IF KindOf[l] = LinkKind(req[s].op) THEN [links[l] EXCEPT !.ttl = 0]
            ELSE links[l]]
    /\ Go(s, "link")
    /\ UNCHANGED <<ident, sess, factors, unspent, codes, aborts, asked, hist>>

\* create_token.  The id of a row nobody can use any more is taken again.
CreateLink(s, l) ==
    /\ At(s, "link") /\ ~Usable(l) /\ KindOf[l] = LinkKind(req[s].op)
    /\ \A t \in Slots : req[t].link # l
    /\ links' = [links EXCEPT ![l] = [ttl |-> LinkTtl[KindOf[l]], opened |-> 0]]
    /\ Answer(s)
    /\ UNCHANGED <<ident, sess, factors, unspent, codes, aborts, asked, hist>>

\* _spend_token of verify_email and reset_password finds a usable link;
\* complete_mfa finds its challenge, and an identity that can log in.
Present(s, op, l) ==
    /\ Begins(s, op) /\ Usable(l)
    /\ KindOf[l] = CASE op = "verify" -> "verification"
                     [] op = "reset" -> "reset"
                     [] op = "mfa" -> "challenge"
    /\ op = "mfa" => CanLogIn(ident)
    /\ Start(s, [Idle EXCEPT !.op = op, !.link = l,
                             !.step = IF op = "mfa" THEN "factor" ELSE "spend"])
    /\ UNCHANGED <<ident, sess, links, factors, unspent, codes, aborts, asked, hist>>

\* A buggy variant: a challenge that opened a session can be used again.
SpendLinkNot(s) ==
    /\ At(s, "spend")
    /\ links' = IF req[s].op = "mfa" THEN links
                ELSE [links EXCEPT ![req[s].link].ttl = 0]
    /\ Go(s, IF req[s].op = "mfa" THEN "session" ELSE "read")
    /\ UNCHANGED <<ident, sess, factors, unspent, codes, aborts, asked, hist>>

\* save_token with used_at set: before a verification or a reset does anything,
\* after the second factor of a challenge was right.
SpendLink(s) ==
    /\ At(s, "spend")
    /\ links' = [links EXCEPT ![req[s].link].ttl = 0]
    /\ Go(s, IF req[s].op = "mfa" THEN "session" ELSE "read")
    /\ UNCHANGED <<ident, sess, factors, unspent, codes, aborts, asked, hist>>

-----------------------------------------------------------------------------
(* The identity row: read, changed, saved whole.                           *)

\* log_in: the row is read; a lock or a purge ends it.
LogIn(s, right) ==
    /\ Begins(s, "login") /\ ident.status \notin {"absent", "deleted"} /\ ident.lock = 0
    /\ right /\ RequireVerified => ident.status # "pending"
    /\ Start(s, [Idle EXCEPT !.op = "login", !.step = "save", !.row = ident,
                             !.right = right])
    /\ UNCHANGED <<ident, sess, links, factors, unspent, codes, aborts, asked, hist>>

\* verify_email and reset_password after the link is spent; a verified row
\* needs nothing, and a weak password ends a reset here.
Read(s) ==
    /\ At(s, "read")
    /\ \/ /\ IF req[s].op = "verify" THEN ~ident.verified
             ELSE ident.status # "deleted" /\ ident.password < MaxPasswords
          /\ req' = [req EXCEPT ![s].step = "save", ![s].row = ident]
       \/ Answer(s)
    /\ UNCHANGED <<ident, sess, links, factors, unspent, codes, aborts, asked, hist>>

\* change_password and the password check of request_deletion.
ReadAgain(s, op) ==
    /\ Admitted(s, op) /\ op \in {"change", "delete"}
    /\ \/ /\ op = "change" => ident.password < MaxPasswords
          /\ req' = [req EXCEPT ![s].step = "save", ![s].row = ident]
       \/ Answer(s)
    /\ UNCHANGED <<ident, sess, links, factors, unspent, codes, aborts, asked, hist>>

\* purge_due: an identity whose grace period has ended.
Due(s) ==
    /\ Begins(s, "purge") /\ ident.status = "pending_deletion" /\ ident.grace = 0
    /\ Start(s, [Idle EXCEPT !.op = "purge", !.step = "save", !.row = ident])
    /\ UNCHANGED <<ident, sess, links, factors, unspent, codes, aborts, asked, hist>>

Confirmed(i) == [i EXCEPT !.verified = TRUE,
                          !.status = IF i.status = "pending" THEN "active" ELSE i.status]

\* _register_failure
Failed(i) ==
    IF i.fails + 1 >= MaxFailed THEN [i EXCEPT !.fails = 0, !.lock = LockS]
    ELSE [i EXCEPT !.fails = i.fails + 1]

\* A buggy variant: signing in leaves a requested deletion standing.
ReturnedLeaving(i) == [i EXCEPT !.fails = 0, !.lock = 0]

\* The row after a right password: a deletion asked for is called off.
Returned(i) ==
    [i EXCEPT !.status = IF i.status # "pending_deletion" THEN i.status
                         ELSE IF i.verified THEN "active" ELSE "pending",
              !.grace = 0, !.fails = 0, !.lock = 0]

\* The row each operation saves, made from the row it read.
Saved(r) ==
    CASE r.op = "login" -> IF r.right THEN Returned(r.row) ELSE Failed(r.row)
      [] r.op = "verify" -> Confirmed(r.row)
      [] r.op = "reset" -> [Confirmed(r.row) EXCEPT !.password = r.row.password + 1,
                                                    !.fails = 0, !.lock = 0]
      [] r.op = "change" -> [r.row EXCEPT !.password = r.row.password + 1]
      [] r.op = "delete" -> [r.row EXCEPT !.status = "pending_deletion", !.grace = Grace]
      [] OTHER -> [r.row EXCEPT !.status = "deleted", !.verified = FALSE, !.grace = 0,
                                !.password = 0]

AfterSave(r) ==
    CASE r.op = "login" -> IF r.right THEN "gate" ELSE "idle"
      [] r.op = "verify" -> "idle"
      [] r.op = "change" -> "list"
      [] OTHER -> "revoke"

\* save_identity; the session that changes the password is of the new one.
Save(s) ==
    /\ At(s, "save")
    /\ ident' = Saved(req[s])
    /\ IF AfterSave(req[s]) = "idle" THEN Answer(s) ELSE Go(s, AfterSave(req[s]))
    /\ sess' = IF req[s].op = "change"
               THEN [sess EXCEPT ![req[s].sid].epoch = ident'.password] ELSE sess
    /\ UNCHANGED <<links, factors, unspent, codes, aborts, asked, hist>>

-----------------------------------------------------------------------------
(* Sessions.                                                               *)

\* A login with no factor owed, or a challenge that was met.
BeginsSession(s) == At(s, "session") \/ (At(s, "gate") /\ ~Gated)

\* _choose_membership and _start_session; without a workspace to choose the
\* request is refused here.  The id of a dead row is taken again.
StartSession(s, x, d) ==
    /\ BeginsSession(s)
    /\ \/ /\ ~Live(x) /\ \A t \in Slots : req[t].sid # x /\ x \notin req[t].todo
          /\ sess' = [sess EXCEPT ![x] =
                [open |-> TRUE, cur |-> 1, prev |-> 0, ttl |-> RefreshTtl,
                 ceiling |-> SessionMax, device |-> d, mfa |-> req[s].op = "mfa",
                 epoch |-> ident.password, gated |-> Gated,
                 minted |-> 1, spent |-> {}]]
          /\ links' = IF req[s].op = "mfa"
                      THEN [links EXCEPT ![req[s].link].opened = @ + 1] ELSE links
       \/ UNCHANGED <<sess, links>>
    /\ Answer(s)
    /\ UNCHANGED <<ident, factors, unspent, codes, aborts, asked, hist>>

\* A buggy variant: the spent token is taken for the current one.
ReusedAsCurrent(r, t) == FALSE

\* The token a rotation retired has come back.
Reused(r, t) == t = r.prev /\ t # 0

\* refresh: the session of a token, current or previous.
Refresh(s, x, t) ==
    /\ Begins(s, "refresh")
    /\ t \in {sess[x].cur, sess[x].prev} \ {0}
    /\ \/ /\ Reused(sess[x], t)
          /\ Start(s, [Idle EXCEPT !.op = "refresh", !.step = "revoke"])
       \/ /\ ~Reused(sess[x], t)
          /\ Live(x) /\ CanLogIn(ident) /\ sess[x].minted < MaxTokens
          /\ Start(s, [Idle EXCEPT !.op = "refresh", !.step = "rotate", !.sid = x,
                                   !.copy = sess[x]])
    /\ hist' = [hist EXCEPT !.doubled =
            hist.doubled \/ (~Reused(sess[x], t) /\ t \in sess[x].spent)]
    /\ UNCHANGED <<ident, sess, links, factors, unspent, codes, aborts, asked>>

\* save_session of the rotated row, whole: revoked_at as it was read.
Rotate(s) ==
    /\ At(s, "rotate")
    /\ LET x == req[s].sid
           c == req[s].copy
           new == sess[x].minted + 1 IN
       /\ new <= MaxTokens
       /\ sess' = [sess EXCEPT ![x] =
            [c EXCEPT !.prev = c.cur, !.cur = new, !.minted = new,
                      !.ttl = IF RefreshTtl < c.ceiling THEN RefreshTtl ELSE c.ceiling,
                      !.spent = sess[x].spent \union {c.cur}]]
       /\ hist' = [hist EXCEPT !.doubled = hist.doubled \/ c.cur \in sess[x].spent]
    /\ Answer(s)
    /\ UNCHANGED <<ident, links, factors, unspent, codes, aborts, asked>>

\* log_out, by the current token or the one before.
LogOut(s, x) ==
    /\ Begins(s, "logout") /\ Live(x)
    /\ sess' = [sess EXCEPT ![x] = Closed(sess[x])]
    /\ UNCHANGED <<ident, links, factors, unspent, codes, req, aborts, asked, hist>>

\* A buggy variant: only sessions that ran out are revoked.
RevokeAllStale(s) ==
    /\ At(s, "revoke") \/ Admitted(s, "everywhere")
    /\ sess' = [x \in Sessions |-> IF Live(x) THEN sess[x] ELSE Closed(sess[x])]
    /\ Answer(s)
    /\ UNCHANGED <<ident, links, factors, unspent, codes, aborts, asked, hist>>

\* revoke_sessions, one statement: log_out_everywhere, a reset, a deletion, a
\* purge, a token that came back.
RevokeAll(s) ==
    /\ At(s, "revoke") \/ Admitted(s, "everywhere")
    /\ sess' = [x \in Sessions |-> Closed(sess[x])]
    /\ Answer(s)
    /\ UNCHANGED <<ident, links, factors, unspent, codes, aborts, asked, hist>>

\* sessions_for, after a password change (all others) or of one device.
List(s, d) ==
    /\ At(s, "list") \/ Admitted(s, "device")
    /\ LET todo == IF req[s].op = "change"
                   THEN {x \in Sessions : Live(x)} \ {req[s].sid}
                   ELSE {x \in Sessions : Live(x) /\ sess[x].device = d} IN
       IF todo = {} THEN Answer(s)
       ELSE req' = [req EXCEPT ![s].step = "revoke_one", ![s].todo = todo]
    /\ UNCHANGED <<ident, sess, links, factors, unspent, codes, aborts, asked, hist>>

\* save_session of one listed row, revoked.
RevokeOne(s, x) ==
    /\ At(s, "revoke_one") /\ x \in req[s].todo
    /\ sess' = [sess EXCEPT ![x] = Closed(sess[x])]
    /\ IF req[s].todo = {x} THEN Answer(s)
       ELSE req' = [req EXCEPT ![s].todo = req[s].todo \ {x}]
    /\ UNCHANGED <<ident, links, factors, unspent, codes, aborts, asked, hist>>

-----------------------------------------------------------------------------
(* Second factors.                                                         *)

\* begin_enrolment: unconfirmed factors are deleted first.
Enrol(s) ==
    /\ Admitted(s, "enrol")
    /\ factors' = [f \in Factors |-> IF factors[f] = "active" THEN "active" ELSE "absent"]
    /\ Go(s, "enrol")
    /\ UNCHANGED <<ident, sess, links, unspent, codes, aborts, asked, hist>>

CreateFactor(s) ==
    /\ At(s, "enrol")
    /\ \/ \E f \in Factors :
            /\ factors[f] = "absent"
            /\ factors' = [factors EXCEPT ![f] = "unconfirmed"]
       \/ /\ \A f \in Factors : factors[f] # "absent"    \* the bound on factors
          /\ UNCHANGED factors
    /\ Answer(s)
    /\ UNCHANGED <<ident, sess, links, unspent, codes, aborts, asked, hist>>

\* confirm_enrolment with a right code; a wrong one changes nothing.
Confirm(s, f) ==
    /\ Admitted(s, "confirm") /\ factors[f] = "unconfirmed"
    /\ factors' = [factors EXCEPT ![f] = "active"]
    /\ unspent' = unspent \ {f}
    /\ Go(s, "codes")
    /\ UNCHANGED <<ident, sess, links, codes, aborts, asked, hist>>

\* disable_mfa deletes one factor after another; regenerate_recovery_codes
\* wants one to be active.  Both have asked for the password.
Disable(s) ==
    /\ Admitted(s, "disable")
    /\ Go(s, "drop")
    /\ UNCHANGED <<ident, sess, links, factors, unspent, codes, aborts, asked, hist>>

Drop(s) ==
    /\ At(s, "drop")
    /\ \/ \E f \in Factors :
            /\ factors[f] # "absent"
            /\ factors' = [factors EXCEPT ![f] = "absent"]
            /\ unspent' = unspent \ {f}
            /\ UNCHANGED req
       \/ /\ \A f \in Factors : factors[f] = "absent"
          /\ Go(s, "codes")
          /\ UNCHANGED <<factors, unspent>>
    /\ UNCHANGED <<ident, sess, links, codes, aborts, asked, hist>>

Regenerate(s) ==
    /\ Admitted(s, "regenerate") /\ Gated
    /\ Go(s, "codes")
    /\ UNCHANGED <<ident, sess, links, factors, unspent, codes, aborts, asked, hist>>

\* A buggy variant: a confirmed factor brings no codes of its own.
ReplaceCodesOld(s) ==
    /\ At(s, "codes")
    /\ codes' = [c \in Codes |-> IF req[s].op = "disable" THEN "absent"
                                ELSE IF req[s].op = "confirm" THEN codes[c] ELSE "unspent"]
    /\ Answer(s)
    /\ UNCHANGED <<ident, sess, links, factors, unspent, aborts, asked, hist>>

\* replace_recovery_codes, one transaction.
ReplaceCodes(s) ==
    /\ At(s, "codes")
    /\ codes' = [c \in Codes |-> IF req[s].op = "disable" THEN "absent" ELSE "unspent"]
    /\ Answer(s)
    /\ UNCHANGED <<ident, sess, links, factors, unspent, aborts, asked, hist>>

\* _spend_second_factor: the code of an active factor that was not used yet, or
\* a recovery code.  With a wrong code the challenge stays open.
Factor(s) ==
    /\ At(s, "factor")
    /\ \/ \E f \in unspent :
            /\ factors[f] = "active"
            /\ unspent' = unspent \ {f}
            /\ Go(s, "spend")
            /\ UNCHANGED codes
       \/ \E c \in Codes :
            /\ codes[c] = "unspent"
            /\ codes' = [codes EXCEPT ![c] = "spent"]
            /\ Go(s, "spend")
            /\ UNCHANGED unspent
       \/ Answer(s) /\ UNCHANGED <<codes, unspent>>
    /\ UNCHANGED <<ident, sess, links, factors, aborts, asked, hist>>

-----------------------------------------------------------------------------
(* Time, and requests cut short.                                           *)

Down(n) == IF n = 0 THEN 0 ELSE n - 1

Tick ==
    /\ \A s \in Slots : ~InHandler(s)
    /\ ident' = [ident EXCEPT !.lock = Down(ident.lock), !.grace = Down(ident.grace)]
    /\ sess' = [x \in Sessions |->
            IF sess[x].ttl <= 1 \/ sess[x].ceiling <= 1 THEN Closed(sess[x])
            ELSE [sess[x] EXCEPT !.ttl = sess[x].ttl - 1, !.ceiling = sess[x].ceiling - 1]]
    /\ links' = [l \in Links |-> IF links[l].ttl <= 1 THEN [ttl |-> 0, opened |-> 0]
                                 ELSE [links[l] EXCEPT !.ttl = links[l].ttl - 1]]
    /\ unspent' = {f \in Factors : factors[f] = "active"}
    /\ UNCHANGED <<factors, codes, req, aborts, asked, hist>>

\* A request that has yet to end the sessions it is to end.
Ending(s) == At(s, "revoke") \/ At(s, "list") \/ At(s, "revoke_one")

\* The store refuses a statement, or the process dies.
Abort(s) ==
    /\ InHandler(s) /\ aborts < MaxAborts
    /\ aborts' = aborts + 1
    /\ Answer(s)
    /\ hist' = [hist EXCEPT
            !.keptOpen = hist.keptOpen \/ Ending(s),
            !.uncoded = hist.uncoded \/ (At(s, "codes") /\ req[s].op = "confirm")]
    /\ UNCHANGED <<ident, sess, links, factors, unspent, codes, asked>>

LinkSteps(s) ==
    \/ SignUp(s)
    \/ \E op \in {"resend", "forgot"} : AskForLink(s, op)
    \/ Invalidate(s)
    \/ \E l \in Links : CreateLink(s, l)
    \/ \E op \in {"verify", "reset", "mfa"}, l \in Links : Present(s, op, l)
    \/ SpendLink(s)

IdentitySteps(s) ==
    \/ \E right \in BOOLEAN : LogIn(s, right)
    \/ Read(s)
    \/ \E op \in Guarded : ReadAgain(s, op)
    \/ Due(s)
    \/ Save(s)

SessionSteps(s) ==
    \/ \E op \in Guarded, x \in Sessions : Admit(s, op, x)
    \/ \E x \in Sessions, d \in Devices : StartSession(s, x, d)
    \/ \E x \in Sessions, t \in 1..MaxTokens : Refresh(s, x, t)
    \/ Rotate(s)
    \/ \E x \in Sessions : LogOut(s, x)
    \/ RevokeAll(s)
    \/ \E d \in Devices : List(s, d)
    \/ \E x \in Sessions : RevokeOne(s, x)

FactorSteps(s) ==
    \/ Enrol(s) \/ CreateFactor(s)
    \/ \E f \in Factors : Confirm(s, f)
    \/ Disable(s) \/ Drop(s) \/ Regenerate(s) \/ ReplaceCodes(s)
    \/ Factor(s)

Next ==
    \/ \E s \in Slots :
        LinkSteps(s) \/ IdentitySteps(s) \/ SessionSteps(s) \/ FactorSteps(s) \/ Abort(s)
    \/ Tick

Spec == Init /\ [][Next]_vars

-----------------------------------------------------------------------------
(* Properties.                                                             *)

\* "Set a new password from a reset link, and end every session": whoever is
\* signed in has signed in since the password was last set, or set it in that
\* session; unless the request that set it is still at work, or was cut off
\* between the password and the sessions (service.py, reset_password and
\* change_password).
PasswordBehind ==
    \A x \in Sessions : Live(x) =>
        \/ sess[x].epoch = ident.password
        \/ hist.keptOpen
        \/ \E s \in Slots : Ending(s)

\* An account whose deletion was asked for is signed in nowhere, however the
\* request overlaps with sign-ins and refreshes: signing in calls it off, and
\* nothing else starts or prolongs a session (request_deletion, purge_due).
LeavingIsSignedOut ==
    ident.status \in {"pending_deletion", "deleted"} =>
        \/ \A x \in Sessions : ~Live(x)
        \/ hist.keptOpen
        \/ \E s \in Slots : Ending(s)

\* A refresh token buys one pair: no token that was exchanged is exchanged
\* again (refresh, its lock and previous_hash).
TokenSpentOnce == ~hist.doubled

\* A session begun while the account had a second factor was begun with it, and
\* a challenge opens one session (log_in, complete_mfa).
SecondFactorAsked ==
    /\ \A x \in Sessions : Live(x) /\ sess[x].gated => sess[x].mfa
    /\ \A l \in Links : links[l].opened <= 1

\* Whoever must present a second factor was given recovery codes; unless the
\* request that switched the factor on was cut off before it issued them.
WayBack ==
    Gated =>
        \/ \A c \in Codes : codes[c] # "absent"
        \/ hist.uncoded
        \/ \E s \in Slots : At(s, "codes") \/ At(s, "drop")
=============================================================================
