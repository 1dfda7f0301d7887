----------------------------- MODULE AuthProofs -----------------------------
(***************************************************************************)
(* What one API process keeps of an identity, its sessions, links and      *)
(* factors, wherever requests are cut short.                               *)
(***************************************************************************)
EXTENDS Auth, TLAPS

\* A password that is to be counted up is not the last, and a token that is to
\* be retired is one.
Prepared(s) ==
    /\ At(s, "save") /\ req[s].op \in {"reset", "change"} => req[s].row.password < MaxPasswords
    /\ At(s, "rotate") => req[s].copy.cur # 0

TypeInv == TypeOK /\ \A s \in Slots : Prepared(s)

-----------------------------------------------------------------------------
(* What a request becomes.                                                 *)

\* Only slot s has moved, and what it does next is prepared.
Keeps(s) ==
    /\ req' \in [Slots -> Requests]
    /\ \A t \in Slots \ {s} : req'[t] = req[t]
    /\ \A t \in Slots : Prepared(t)'

LEMMA RowsTyped ==
    /\ NoIdentity \in Identities
    /\ \A d \in Devices : NoRow(d) \in SessionRows
<1>1. NoIdentity \in Identities
  BY BoundsAssumption DEF NoIdentity, Identities, Statuses
<1>2. ASSUME NEW d \in Devices PROVE NoRow(d) \in SessionRows
  BY BoundsAssumption DEF NoRow, SessionRows
<1> QED  BY <1>1, <1>2

LEMMA IdleTyped ==
    /\ Idle \in Requests /\ Idle.step = "idle" /\ Idle.op = "none"
    /\ Idle.copy \in SessionRows /\ ~Idle.copy.open /\ ~Idle.copy.gated
    /\ Idle.copy.cur = 0 /\ Idle.copy.prev = 0 /\ Idle.copy.minted = 0 /\ Idle.copy.spent = {}
<1>1. (CHOOSE d \in Devices : TRUE) \in Devices
  BY NamesAssumption
<1> DEFINE d == CHOOSE e \in Devices : TRUE
<1>2. NoRow(d) \in SessionRows
  BY <1>1, RowsTyped
<1>3. /\ ~NoRow(d).open /\ ~NoRow(d).gated /\ NoRow(d).cur = 0 /\ NoRow(d).prev = 0
      /\ NoRow(d).minted = 0 /\ NoRow(d).spent = {}
  BY DEF NoRow
<1> HIDE DEF d
<1>4. Idle.copy = NoRow(d)
  BY DEF Idle, d
<1>5. Idle \in Requests /\ Idle.step = "idle" /\ Idle.op = "none"
  BY <1>1, <1>2, RowsTyped DEF Idle, Requests, Ops, Steps, Guarded, d
<1> QED  BY <1>2, <1>3, <1>4, <1>5

LEMMA MovesKeep ==
    ASSUME TypeInv, NEW s \in Slots, NEW r \in Requests, req' = [req EXCEPT ![s] = r],
           r.step = "save" /\ r.op \in {"reset", "change"} => r.row.password < MaxPasswords,
           r.step = "rotate" => r.copy.cur # 0
    PROVE  Keeps(s) /\ req'[s] = r
<1>1. /\ req' \in [Slots -> Requests] /\ req'[s] = r
      /\ \A t \in Slots \ {s} : req'[t] = req[t]
  BY DEF TypeInv, TypeOK
<1>2. ASSUME NEW t \in Slots PROVE Prepared(t)'
  <2>1. CASE t = s
    BY <1>1, <2>1 DEF Prepared, At
  <2>2. CASE t # s
    BY <1>1, <2>2 DEF TypeInv, Prepared, At
  <2> QED  BY <2>1, <2>2
<1> QED  BY <1>1, <1>2 DEF Keeps

\* The ways a request begins.
LEMMA Plainly ==
    ASSUME TypeInv, NEW s \in Slots, NEW op \in Ops, NEW st \in Steps \ {"save", "rotate"},
           Start(s, [Idle EXCEPT !.op = op, !.step = st])
    PROVE  Keeps(s) /\ req'[s].step = st /\ req'[s].op = op
<1> DEFINE r == [Idle EXCEPT !.op = op, !.step = st]
<1>1. r \in Requests /\ r.op = op /\ r.step = st
  BY IdleTyped DEF Requests
<1>2. req' = [req EXCEPT ![s] = r]
  BY DEF Start
<1> HIDE DEF r
<1> QED  BY <1>1, <1>2, MovesKeep

LEMMA WithSession ==
    ASSUME TypeInv, NEW s \in Slots, NEW op \in Ops, NEW st \in Steps \ {"save", "rotate"},
           NEW x \in Sessions \union {NoSession},
           Start(s, [Idle EXCEPT !.op = op, !.step = st, !.sid = x])
    PROVE  Keeps(s) /\ req'[s].step = st /\ req'[s].op = op /\ req'[s].sid = x
<1> DEFINE r == [Idle EXCEPT !.op = op, !.step = st, !.sid = x]
<1>1. r \in Requests /\ r.op = op /\ r.step = st /\ r.sid = x
  BY IdleTyped DEF Requests
<1>2. req' = [req EXCEPT ![s] = r]
  BY DEF Start
<1> HIDE DEF r
<1> QED  BY <1>1, <1>2, MovesKeep

LEMMA WithLink ==
    ASSUME TypeInv, NEW s \in Slots, NEW op \in Ops, NEW st \in Steps \ {"save", "rotate"},
           NEW l \in Links,
           Start(s, [Idle EXCEPT !.op = op, !.link = l, !.step = st])
    PROVE  Keeps(s) /\ req'[s].step = st /\ req'[s].op = op /\ req'[s].link = l
<1> DEFINE r == [Idle EXCEPT !.op = op, !.link = l, !.step = st]
<1>1. r \in Requests /\ r.op = op /\ r.step = st /\ r.link = l
  BY IdleTyped DEF Requests
<1>2. req' = [req EXCEPT ![s] = r]
  BY DEF Start
<1> HIDE DEF r
<1> QED  BY <1>1, <1>2, MovesKeep

LEMMA WithRow ==
    ASSUME TypeInv, NEW s \in Slots,
           Start(s, [Idle EXCEPT !.op = "purge", !.step = "save", !.row = ident])
    PROVE  Keeps(s) /\ req'[s].step = "save" /\ req'[s].op = "purge" /\ req'[s].row = ident
<1> DEFINE r == [Idle EXCEPT !.op = "purge", !.step = "save", !.row = ident]
<1>1. r \in Requests /\ r.op = "purge" /\ r.step = "save" /\ r.row = ident
  BY IdleTyped DEF Requests, TypeInv, TypeOK, Ops, Steps
<1>2. req' = [req EXCEPT ![s] = r]
  BY DEF Start
<1> HIDE DEF r
<1> QED  BY <1>1, <1>2, MovesKeep

LEMMA WithPassword ==
    ASSUME TypeInv, NEW s \in Slots, NEW right \in BOOLEAN,
           Start(s, [Idle EXCEPT !.op = "login", !.step = "save", !.row = ident, !.right = right])
    PROVE  Keeps(s) /\ req'[s].step = "save" /\ req'[s].op = "login" /\ req'[s].row = ident
<1> DEFINE r == [Idle EXCEPT !.op = "login", !.step = "save", !.row = ident, !.right = right]
<1>1. r \in Requests /\ r.op = "login" /\ r.step = "save" /\ r.row = ident
  BY IdleTyped DEF Requests, TypeInv, TypeOK, Ops, Steps
<1>2. req' = [req EXCEPT ![s] = r]
  BY DEF Start
<1> HIDE DEF r
<1> QED  BY <1>1, <1>2, MovesKeep

LEMMA WithCopy ==
    ASSUME TypeInv, NEW s \in Slots, NEW x \in Sessions, sess[x].cur # 0,
           Start(s, [Idle EXCEPT !.op = "refresh", !.step = "rotate", !.sid = x, !.copy = sess[x]])
    PROVE  /\ Keeps(s) /\ req'[s].step = "rotate" /\ req'[s].op = "refresh"
           /\ req'[s].sid = x /\ req'[s].copy = sess[x]
<1> DEFINE r == [Idle EXCEPT !.op = "refresh", !.step = "rotate", !.sid = x, !.copy = sess[x]]
<1>1. r \in Requests /\ r.op = "refresh" /\ r.step = "rotate" /\ r.sid = x /\ r.copy = sess[x]
  BY IdleTyped DEF Requests, TypeInv, TypeOK, Ops, Steps
<1>2. req' = [req EXCEPT ![s] = r]
  BY DEF Start
<1> HIDE DEF r
<1> QED  BY <1>1, <1>2, MovesKeep

\* The ways it goes on, and ends.
LEMMA GoKeeps ==
    ASSUME TypeInv, NEW s \in Slots, NEW st \in Steps \ {"save", "rotate"}, Go(s, st)
    PROVE  /\ Keeps(s) /\ req'[s].step = st /\ req'[s].op = req[s].op /\ req'[s].sid = req[s].sid
           /\ req'[s].link = req[s].link /\ req'[s].todo = req[s].todo
<1> DEFINE q == req[s]
<1>1. q \in Requests /\ req' = [req EXCEPT ![s] = [q EXCEPT !.step = st]]
  BY DEF TypeInv, TypeOK, Go
<1> HIDE DEF q
<1> DEFINE r == [q EXCEPT !.step = st]
<1>2. /\ r \in Requests /\ r.step = st /\ r.op = q.op /\ r.sid = q.sid
      /\ r.link = q.link /\ r.todo = q.todo
  BY <1>1 DEF Requests
<1>3. req' = [req EXCEPT ![s] = r]
  BY <1>1
<1> HIDE DEF r
<1>4. Keeps(s) /\ req'[s] = r
  BY <1>2, <1>3, MovesKeep
<1> QED  BY <1>2, <1>4 DEF q

LEMMA ReadKeeps ==
    ASSUME TypeInv, NEW s \in Slots,
           req[s].op \in {"reset", "change"} => ident.password < MaxPasswords,
           req' = [req EXCEPT ![s].step = "save", ![s].row = ident]
    PROVE  /\ Keeps(s) /\ req'[s].step = "save" /\ req'[s].op = req[s].op
           /\ req'[s].sid = req[s].sid /\ req'[s].row = ident
<1> DEFINE q == req[s]
<1>1. q \in Requests /\ req' = [req EXCEPT ![s] = [q EXCEPT !.step = "save", !.row = ident]]
  BY DEF TypeInv, TypeOK
<1> HIDE DEF q
<1> DEFINE r == [q EXCEPT !.step = "save", !.row = ident]
<1>2. r \in Requests /\ r.step = "save" /\ r.op = q.op /\ r.sid = q.sid /\ r.row = ident
  BY <1>1 DEF Requests, TypeInv, TypeOK, Steps
<1>3. req' = [req EXCEPT ![s] = r]
  BY <1>1
<1> HIDE DEF r
<1>4. Keeps(s) /\ req'[s] = r
  BY <1>2, <1>3, MovesKeep DEF q
<1> QED  BY <1>2, <1>4 DEF q

LEMMA ListKeeps ==
    ASSUME TypeInv, NEW s \in Slots, NEW todo \in SUBSET Sessions,
           req' = [req EXCEPT ![s].step = "revoke_one", ![s].todo = todo]
    PROVE  Keeps(s) /\ req'[s].step = "revoke_one" /\ req'[s].op = req[s].op /\ req'[s].todo = todo
<1> DEFINE q == req[s]
<1>1. q \in Requests /\ req' = [req EXCEPT ![s] = [q EXCEPT !.step = "revoke_one", !.todo = todo]]
  BY DEF TypeInv, TypeOK
<1> HIDE DEF q
<1> DEFINE r == [q EXCEPT !.step = "revoke_one", !.todo = todo]
<1>2. r \in Requests /\ r.step = "revoke_one" /\ r.op = q.op /\ r.todo = todo
  BY <1>1 DEF Requests, Steps
<1>3. req' = [req EXCEPT ![s] = r]
  BY <1>1
<1> HIDE DEF r
<1>4. Keeps(s) /\ req'[s] = r
  BY <1>2, <1>3, MovesKeep
<1> QED  BY <1>2, <1>4 DEF q

LEMMA OffListKeeps ==
    ASSUME TypeInv, NEW s \in Slots, At(s, "revoke_one"), NEW todo \in SUBSET Sessions,
           req' = [req EXCEPT ![s].todo = todo]
    PROVE  Keeps(s) /\ req'[s].step = "revoke_one" /\ req'[s].op = req[s].op /\ req'[s].todo = todo
<1> DEFINE q == req[s]
<1>1. q \in Requests /\ q.step = "revoke_one" /\ req' = [req EXCEPT ![s] = [q EXCEPT !.todo = todo]]
  BY DEF TypeInv, TypeOK, At
<1> HIDE DEF q
<1> DEFINE r == [q EXCEPT !.todo = todo]
<1>2. r \in Requests /\ r.step = "revoke_one" /\ r.op = q.op /\ r.todo = todo
  BY <1>1 DEF Requests
<1>3. req' = [req EXCEPT ![s] = r]
  BY <1>1
<1> HIDE DEF r
<1>4. Keeps(s) /\ req'[s] = r
  BY <1>2, <1>3, MovesKeep
<1> QED  BY <1>2, <1>4 DEF q

LEMMA AnswerKeeps ==
    ASSUME TypeInv, NEW s \in Slots, Answer(s)
    PROVE  Keeps(s) /\ req'[s].step = "idle" /\ req'[s].op = "none"
  BY IdleTyped, MovesKeep DEF Answer

LEMMA StillKeeps ==
    ASSUME TypeInv, NEW s \in Slots, req' = req
    PROVE  Keeps(s)
  BY DEF TypeInv, TypeOK, Keeps, Prepared, At

-----------------------------------------------------------------------------
(* Types.                                                                  *)

Rows == <<ident, sess, links, factors, unspent, codes>>

LEMMA Typed ==
    ASSUME TypeInv, NEW s \in Slots, Keeps(s),
           ident' \in Identities, sess' \in [Sessions -> SessionRows],
           links' \in [Links -> [ttl : Nat, opened : Nat]],
           factors' \in [Factors -> {"absent", "unconfirmed", "active"}],
           unspent' \in SUBSET Factors, codes' \in [Codes -> {"absent", "unspent", "spent"}],
           aborts' \in 0..MaxAborts, asked' = asked,
           hist' \in [doubled : BOOLEAN, keptOpen : BOOLEAN, uncoded : BOOLEAN]
    PROVE  TypeInv'
  BY DEF TypeInv, TypeOK, Keeps

LEMMA SameTyped ==
    ASSUME TypeInv, NEW s \in Slots, Keeps(s), UNCHANGED <<Rows, aborts, asked, hist>>
    PROVE  TypeInv'
  BY Typed DEF TypeInv, TypeOK, Rows

LEMMA ClosedRow ==
    ASSUME NEW r \in SessionRows
    PROVE  /\ Closed(r) \in SessionRows /\ ~Closed(r).open /\ ~Closed(r).gated
           /\ Closed(r).cur = r.cur /\ Closed(r).prev = r.prev
           /\ Closed(r).minted = r.minted /\ Closed(r).spent = r.spent
<1> DEFINE n == NoRow(r.device)
<1>1. n \in SessionRows /\ ~n.open /\ ~n.gated
  <2>1. r.device \in Devices
    BY DEF SessionRows
  <2> QED  BY <2>1, RowsTyped DEF NoRow
<1>2. Closed(r) = [n EXCEPT !.cur = r.cur, !.prev = r.prev, !.minted = r.minted, !.spent = r.spent]
  BY DEF Closed
<1> HIDE DEF n
<1>3. /\ r.cur \in 0..MaxTokens /\ r.prev \in 0..MaxTokens /\ r.minted \in 0..MaxTokens
      /\ r.spent \in SUBSET (1..MaxTokens)
  BY DEF SessionRows
<1> DEFINE m == [n EXCEPT !.cur = r.cur, !.prev = r.prev, !.minted = r.minted, !.spent = r.spent]
<1>4. /\ m \in SessionRows /\ m.open = n.open /\ m.gated = n.gated
      /\ m.cur = r.cur /\ m.prev = r.prev /\ m.minted = r.minted /\ m.spent = r.spent
  BY <1>1, <1>3 DEF SessionRows
<1> HIDE DEF m
<1>5. Closed(r) = m
  BY <1>2 DEF m
<1> QED  BY <1>1, <1>4, <1>5

LEMMA SignUpType ==
    ASSUME TypeInv, NEW s \in Slots, SignUp(s)
    PROVE  /\ TypeInv' /\ Keeps(s) /\ req'[s].step = "links"
           /\ ident'.status = "pending" /\ ident'.password = 1
<1>1. Keeps(s) /\ req'[s].step = "links"
  BY Plainly DEF SignUp, Ops, Steps
<1>2. ident' \in Identities /\ ident'.status = "pending" /\ ident'.password = 1
  <2> DEFINE n == NoIdentity
  <2>1. n \in Identities /\ ident' = [n EXCEPT !.status = "pending", !.password = 1]
    BY RowsTyped DEF SignUp
  <2>2. 1 \in 0..MaxPasswords
    BY BoundsAssumption
  <2> HIDE DEF n
  <2> QED  BY <2>1, <2>2 DEF Identities, Statuses
<1> QED  BY <1>1, <1>2, Typed DEF SignUp, TypeInv, TypeOK

LEMMA AskType ==
    ASSUME TypeInv, NEW s \in Slots, NEW op \in {"resend", "forgot"}, AskForLink(s, op)
    PROVE  TypeInv' /\ Keeps(s) /\ req'[s].step = "links"
<1>1. Keeps(s) /\ req'[s].step = "links"
  BY Plainly DEF AskForLink, Ops, Steps
<1> QED  BY <1>1, SameTyped DEF AskForLink, Rows

LEMMA InvalidateType ==
    ASSUME TypeInv, NEW s \in Slots, Invalidate(s)
    PROVE  /\ TypeInv' /\ Keeps(s) /\ req'[s].step = "link"
           /\ \A l \in Links : links'[l].opened = links[l].opened /\ links'[l].ttl \in {links[l].ttl, 0}
<1>1. Keeps(s) /\ req'[s].step = "link"
  BY GoKeeps DEF Invalidate, Steps
<1>2. ASSUME NEW l \in Links
      PROVE  LET m == IF KindOf[l] = LinkKind(req[s].op) THEN [links[l] EXCEPT !.ttl = 0] ELSE links[l]
             IN  /\ m \in [ttl : Nat, opened : Nat]
                 /\ m.opened = links[l].opened /\ m.ttl \in {links[l].ttl, 0}
  BY DEF TypeInv, TypeOK
<1>3. /\ links' \in [Links -> [ttl : Nat, opened : Nat]]
      /\ \A l \in Links : links'[l].opened = links[l].opened /\ links'[l].ttl \in {links[l].ttl, 0}
  BY <1>2 DEF Invalidate
<1> QED  BY <1>1, <1>3, Typed DEF Invalidate, TypeInv, TypeOK

LEMMA CreateLinkType ==
    ASSUME TypeInv, NEW s \in Slots, NEW l \in Links, CreateLink(s, l)
    PROVE  /\ TypeInv' /\ Keeps(s) /\ req'[s].step = "idle"
           /\ \A m \in Links : IF m = l THEN links'[m].opened = 0 ELSE links'[m] = links[m]
<1>1. Keeps(s) /\ req'[s].step = "idle"
  BY AnswerKeeps DEF CreateLink
<1>2. LET m == [ttl |-> LinkTtl[KindOf[l]], opened |-> 0]
      IN  m \in [ttl : Nat, opened : Nat] /\ m.opened = 0
  BY BoundsAssumption
<1>3. links' \in [Links -> [ttl : Nat, opened : Nat]]
      /\ \A m \in Links : IF m = l THEN links'[m].opened = 0 ELSE links'[m] = links[m]
  BY <1>2 DEF CreateLink, TypeInv, TypeOK
<1> QED  BY <1>1, <1>3, Typed DEF CreateLink, TypeInv, TypeOK

LEMMA PresentType ==
    ASSUME TypeInv, NEW s \in Slots, NEW op \in {"verify", "reset", "mfa"}, NEW l \in Links,
           Present(s, op, l)
    PROVE  /\ TypeInv' /\ Keeps(s) /\ req'[s].op = op /\ req'[s].link = l
           /\ req'[s].step = IF op = "mfa" THEN "factor" ELSE "spend"
<1>1. Keeps(s) /\ req'[s].op = op /\ req'[s].link = l
      /\ req'[s].step = IF op = "mfa" THEN "factor" ELSE "spend"
  <2> DEFINE st == IF op = "mfa" THEN "factor" ELSE "spend"
  <2>1. op \in Ops /\ st \in Steps \ {"save", "rotate"}
    BY DEF Ops, Steps
  <2>2. Start(s, [Idle EXCEPT !.op = op, !.link = l, !.step = st])
    BY DEF Present
  <2> HIDE DEF st
  <2>3. Keeps(s) /\ req'[s].op = op /\ req'[s].link = l /\ req'[s].step = st
    BY <2>1, <2>2, WithLink
  <2> QED  BY <2>3 DEF st
<1> QED  BY <1>1, SameTyped DEF Present, Rows

LEMMA SpendLinkType ==
    ASSUME TypeInv, NEW s \in Slots, SpendLink(s)
    PROVE  /\ TypeInv' /\ Keeps(s) /\ req'[s].op = req[s].op /\ req'[s].link = req[s].link
           /\ req'[s].step = IF req[s].op = "mfa" THEN "session" ELSE "read"
           /\ \A l \in Links : /\ links'[l].opened = links[l].opened
                               /\ links'[l].ttl = IF l = req[s].link THEN 0 ELSE links[l].ttl
<1>1. /\ Keeps(s) /\ req'[s].op = req[s].op /\ req'[s].link = req[s].link
      /\ req'[s].step = IF req[s].op = "mfa" THEN "session" ELSE "read"
  <2> DEFINE st == IF req[s].op = "mfa" THEN "session" ELSE "read"
  <2>1. st \in Steps \ {"save", "rotate"} /\ Go(s, st)
    BY DEF Steps, SpendLink
  <2> HIDE DEF st
  <2>2. Keeps(s) /\ req'[s].op = req[s].op /\ req'[s].link = req[s].link /\ req'[s].step = st
    BY <2>1, GoKeeps
  <2> QED  BY <2>2 DEF st
<1>2. /\ links' \in [Links -> [ttl : Nat, opened : Nat]]
      /\ \A l \in Links : /\ links'[l].opened = links[l].opened
                          /\ links'[l].ttl = IF l = req[s].link THEN 0 ELSE links[l].ttl
  BY DEF SpendLink, TypeInv, TypeOK
<1> QED  BY <1>1, <1>2, Typed DEF SpendLink, TypeInv, TypeOK

LEMMA LogInType ==
    ASSUME TypeInv, NEW s \in Slots, NEW right \in BOOLEAN, LogIn(s, right)
    PROVE  TypeInv' /\ Keeps(s) /\ req'[s].step = "save" /\ req'[s].op = "login" /\ req'[s].row = ident
<1>1. Keeps(s) /\ req'[s].step = "save" /\ req'[s].op = "login" /\ req'[s].row = ident
  BY WithPassword DEF LogIn
<1> QED  BY <1>1, SameTyped DEF LogIn, Rows

LEMMA ReadType ==
    ASSUME TypeInv, NEW s \in Slots, Read(s)
    PROVE  /\ TypeInv' /\ Keeps(s)
           /\ \/ /\ req'[s].step = "save" /\ req'[s].op = req[s].op /\ req'[s].row = ident
                 /\ req[s].op # "verify" => ident.status # "deleted"
              \/ req'[s].step = "idle"
<1>1. /\ Keeps(s)
      /\ \/ /\ req'[s].step = "save" /\ req'[s].op = req[s].op /\ req'[s].row = ident
            /\ req[s].op # "verify" => ident.status # "deleted"
         \/ req'[s].step = "idle"
  <2>1. CASE Answer(s)
    BY <2>1, AnswerKeeps
  <2>2. CASE /\ req[s].op # "verify" => ident.status # "deleted" /\ ident.password < MaxPasswords
             /\ req' = [req EXCEPT ![s].step = "save", ![s].row = ident]
    BY <2>2, ReadKeeps
  <2> QED  BY <2>1, <2>2 DEF Read
<1> QED  BY <1>1, SameTyped DEF Read, Rows

LEMMA ReadAgainType ==
    ASSUME TypeInv, NEW s \in Slots, NEW op \in Guarded, ReadAgain(s, op)
    PROVE  /\ TypeInv' /\ Keeps(s)
           /\ \/ req'[s].step = "save" /\ req'[s].op = op /\ req'[s].row = ident
              \/ req'[s].step = "idle"
<1>1. /\ Keeps(s)
      /\ \/ req'[s].step = "save" /\ req'[s].op = op /\ req'[s].row = ident
         \/ req'[s].step = "idle"
  <2>1. CASE Answer(s)
    BY <2>1, AnswerKeeps
  <2>2. CASE /\ op = "change" => ident.password < MaxPasswords
             /\ req' = [req EXCEPT ![s].step = "save", ![s].row = ident]
    BY <2>2, ReadKeeps DEF ReadAgain, Admitted
  <2> QED  BY <2>1, <2>2 DEF ReadAgain
<1> QED  BY <1>1, SameTyped DEF ReadAgain, Rows

LEMMA DueType ==
    ASSUME TypeInv, NEW s \in Slots, Due(s)
    PROVE  TypeInv' /\ Keeps(s) /\ req'[s].step = "save" /\ req'[s].op = "purge" /\ req'[s].row = ident
<1>1. Keeps(s) /\ req'[s].step = "save" /\ req'[s].op = "purge" /\ req'[s].row = ident
  BY WithRow DEF Due
<1> QED  BY <1>1, SameTyped DEF Due, Rows

\* What the operations make of a row.
LEMMA RowsMade ==
    ASSUME NEW i \in Identities
    PROVE  /\ Confirmed(i) \in Identities /\ Confirmed(i).password = i.password
           /\ Confirmed(i).status = (IF i.status = "pending" THEN "active" ELSE i.status)
           /\ Failed(i) \in Identities /\ Failed(i).password = i.password /\ Failed(i).status = i.status
           /\ Returned(i) \in Identities /\ Returned(i).password = i.password
           /\ Returned(i).status = (IF i.status # "pending_deletion" THEN i.status
                                    ELSE IF i.verified THEN "active" ELSE "pending")
<1>1. /\ Confirmed(i) \in Identities /\ Confirmed(i).password = i.password
      /\ Confirmed(i).status = (IF i.status = "pending" THEN "active" ELSE i.status)
  BY DEF Confirmed, Identities, Statuses
<1>2. Failed(i) \in Identities /\ Failed(i).password = i.password /\ Failed(i).status = i.status
  <2>1. /\ i.fails \in 0..MaxFailed /\ MaxFailed \in Nat \ {0} /\ LockS \in Nat
        /\ i.fails + 1 < MaxFailed => i.fails + 1 \in 0..MaxFailed
        /\ 0 \in 0..MaxFailed /\ LockS \in 0..LockS
    BY BoundsAssumption DEF Identities
  <2>2. CASE i.fails + 1 >= MaxFailed
    <3>1. Failed(i) = [i EXCEPT !.fails = 0, !.lock = LockS]
      BY <2>2 DEF Failed
    <3> QED  BY <2>1, <3>1 DEF Identities
  <2>3. CASE ~(i.fails + 1 >= MaxFailed)
    <3>1. Failed(i) = [i EXCEPT !.fails = i.fails + 1] /\ i.fails + 1 \in 0..MaxFailed
      BY <2>1, <2>3 DEF Failed
    <3> QED  BY <3>1 DEF Identities
  <2> QED  BY <2>2, <2>3
<1>3. /\ Returned(i) \in Identities /\ Returned(i).password = i.password
      /\ Returned(i).status = (IF i.status # "pending_deletion" THEN i.status
                               ELSE IF i.verified THEN "active" ELSE "pending")
  <2> DEFINE st == IF i.status # "pending_deletion" THEN i.status
                   ELSE IF i.verified THEN "active" ELSE "pending"
  <2>1. st \in Statuses
    BY DEF Identities, Statuses
  <2>2. Returned(i) = [i EXCEPT !.status = st, !.grace = 0, !.fails = 0, !.lock = 0]
    BY DEF Returned
  <2> HIDE DEF st
  <2>3. 0 \in 0..MaxFailed /\ 0 \in 0..LockS /\ 0 \in 0..Grace
    BY BoundsAssumption
  <2>4. Returned(i) \in Identities /\ Returned(i).password = i.password /\ Returned(i).status = st
    BY <2>1, <2>2, <2>3 DEF Identities
  <2> QED  BY <2>4 DEF st
<1> QED  BY <1>1, <1>2, <1>3

LEMMA SavedRow ==
    ASSUME NEW r \in Requests, r.op \in {"reset", "change"} => r.row.password < MaxPasswords
    PROVE  /\ Saved(r) \in Identities
           /\ r.op \in {"login", "verify", "delete"} => Saved(r).password = r.row.password
           /\ r.op = "login" /\ ~r.right => Saved(r).status = r.row.status
           /\ r.op = "login" /\ r.right =>
                 Saved(r).status = (IF r.row.status # "pending_deletion" THEN r.row.status
                                    ELSE IF r.row.verified THEN "active" ELSE "pending")
           /\ r.op \in {"verify", "reset"} =>
                 Saved(r).status = (IF r.row.status = "pending" THEN "active" ELSE r.row.status)
           /\ r.op = "change" => Saved(r).status = r.row.status
           /\ r.op = "delete" => Saved(r).status = "pending_deletion"
           /\ r.op \notin {"login", "verify", "reset", "change", "delete"} => Saved(r).status = "deleted"
<1> DEFINE i == r.row
           c == Confirmed(i)
<1>1. i \in Identities /\ i.password \in 0..MaxPasswords
  BY DEF Requests, Identities
<1>2. c \in Identities /\ c.status = (IF i.status = "pending" THEN "active" ELSE i.status)
  BY <1>1, RowsMade
<1>3. /\ r.op \in {"reset", "change"} => i.password + 1 \in 0..MaxPasswords
      /\ 0 \in 0..MaxFailed /\ 0 \in 0..LockS /\ 0 \in 0..Grace /\ Grace \in 0..Grace
      /\ 0 \in 0..MaxPasswords
  BY <1>1, BoundsAssumption
<1> HIDE DEF i
<1>4. CASE r.op = "login"
  BY <1>1, <1>4, RowsMade DEF Saved, i
<1>5. CASE r.op = "verify"
  BY <1>1, <1>5, RowsMade DEF Saved, i
<1>6. CASE r.op = "reset"
  <2>1. Saved(r) = [c EXCEPT !.password = i.password + 1, !.fails = 0, !.lock = 0]
    BY <1>6 DEF Saved, i
  <2> HIDE DEF c
  <2>2. Saved(r) \in Identities /\ Saved(r).status = c.status
    BY <1>2, <1>3, <1>6, <2>1 DEF Identities
  <2> QED  BY <1>2, <1>6, <2>2 DEF i
<1>7. CASE r.op = "change"
  <2>1. Saved(r) = [i EXCEPT !.password = i.password + 1]
    BY <1>7 DEF Saved, i
  <2> QED  BY <1>1, <1>3, <1>7, <2>1 DEF Identities, i
<1>8. CASE r.op = "delete"
  <2>1. Saved(r) = [i EXCEPT !.status = "pending_deletion", !.grace = Grace]
    BY <1>8 DEF Saved, i
  <2>2. /\ Saved(r) \in Identities /\ Saved(r).password = i.password
        /\ Saved(r).status = "pending_deletion"
    BY <1>1, <1>3, <2>1 DEF Identities, Statuses
  <2> QED  BY <1>8, <2>2 DEF i
<1>9. CASE r.op \notin {"login", "verify", "reset", "change", "delete"}
  <2>1. Saved(r) = [i EXCEPT !.status = "deleted", !.verified = FALSE, !.grace = 0, !.password = 0]
    BY <1>9 DEF Saved, i
  <2>2. Saved(r) \in Identities /\ Saved(r).status = "deleted"
    BY <1>1, <1>3, <2>1 DEF Identities, Statuses
  <2> QED  BY <1>9, <2>2
<1> QED  BY <1>4, <1>5, <1>6, <1>7, <1>8, <1>9

LEMMA SaveType ==
    ASSUME TypeInv, NEW s \in Slots, Save(s)
    PROVE  /\ TypeInv' /\ Keeps(s) /\ req'[s].step = AfterSave(req[s])
           /\ AfterSave(req[s]) # "idle" => req'[s].op = req[s].op /\ req'[s].sid = req[s].sid
           /\ ident' = Saved(req[s])
           /\ req[s].op # "change" => UNCHANGED sess
           /\ \A x \in Sessions :
                /\ x # req[s].sid => sess'[x] = sess[x]
                /\ sess'[x].open = sess[x].open /\ sess'[x].gated = sess[x].gated
                /\ sess'[x].mfa = sess[x].mfa /\ sess'[x].cur = sess[x].cur
                /\ sess'[x].prev = sess[x].prev
                /\ sess'[x].minted = sess[x].minted /\ sess'[x].spent = sess[x].spent
                /\ x = req[s].sid /\ req[s].op = "change" => sess'[x].epoch = ident'.password
<1> DEFINE st == AfterSave(req[s])
<1>1. /\ Keeps(s) /\ req'[s].step = st
      /\ st # "idle" => req'[s].op = req[s].op /\ req'[s].sid = req[s].sid
  <2>1. st \in Steps \ {"save", "rotate"}
    BY DEF AfterSave, Steps
  <2>2. IF st = "idle" THEN Answer(s) ELSE Go(s, st)
    BY DEF Save
  <2> HIDE DEF st
  <2> QED  BY <2>1, <2>2, AnswerKeeps, GoKeeps
<1>2. ident' = Saved(req[s]) /\ ident' \in Identities /\ ident'.password \in 0..MaxPasswords
  <2>1. /\ req[s] \in Requests
        /\ req[s].op \in {"reset", "change"} => req[s].row.password < MaxPasswords
    BY DEF TypeInv, TypeOK, Prepared, Save
  <2>2. ident' = Saved(req[s]) /\ ident' \in Identities
    BY <2>1, SavedRow DEF Save
  <2> QED  BY <2>2 DEF Identities
<1>3. /\ sess' \in [Sessions -> SessionRows]
      /\ req[s].op # "change" => UNCHANGED sess
      /\ \A x \in Sessions :
           /\ x # req[s].sid => sess'[x] = sess[x]
           /\ sess'[x].open = sess[x].open /\ sess'[x].gated = sess[x].gated
           /\ sess'[x].mfa = sess[x].mfa /\ sess'[x].cur = sess[x].cur
           /\ sess'[x].prev = sess[x].prev
           /\ sess'[x].minted = sess[x].minted /\ sess'[x].spent = sess[x].spent
           /\ x = req[s].sid /\ req[s].op = "change" => sess'[x].epoch = ident'.password
  <2>0. sess \in [Sessions -> SessionRows]
    BY DEF TypeInv, TypeOK
  <2>1. CASE req[s].op # "change"
    <3>1. sess' = sess
      BY <2>1 DEF Save
    <3> QED  BY <2>0, <2>1, <3>1
  <2>2. CASE req[s].op = "change"
    <3>1. PICK p \in 0..MaxPasswords : p = ident'.password
      BY <1>2
    <3>2. sess' = [sess EXCEPT ![req[s].sid].epoch = p]
      BY <2>2, <3>1 DEF Save
    <3>3. ASSUME NEW r \in SessionRows
          PROVE  LET q == [r EXCEPT !.epoch = p] IN
                 /\ q \in SessionRows /\ q.epoch = p /\ q.open = r.open /\ q.gated = r.gated
                 /\ q.mfa = r.mfa /\ q.cur = r.cur /\ q.prev = r.prev /\ q.minted = r.minted
                 /\ q.spent = r.spent
      BY DEF SessionRows
    <3>4. sess' \in [Sessions -> SessionRows]
      BY <2>0, <3>2, <3>3
    <3>5. ASSUME NEW x \in Sessions
          PROVE  /\ x # req[s].sid => sess'[x] = sess[x]
                 /\ x = req[s].sid => sess'[x] = [sess[x] EXCEPT !.epoch = p]
                 /\ sess[x] \in SessionRows
      BY <2>0, <3>2
    <3>6. ASSUME NEW x \in Sessions
          PROVE  /\ x # req[s].sid => sess'[x] = sess[x]
                 /\ sess'[x].open = sess[x].open /\ sess'[x].gated = sess[x].gated
                 /\ sess'[x].mfa = sess[x].mfa /\ sess'[x].cur = sess[x].cur
                 /\ sess'[x].prev = sess[x].prev
                 /\ sess'[x].minted = sess[x].minted /\ sess'[x].spent = sess[x].spent
                 /\ x = req[s].sid => sess'[x].epoch = p
      <4>1. CASE x = req[s].sid
        <5> DEFINE r == sess[x]
        <5>1. r \in SessionRows /\ sess'[x] = [r EXCEPT !.epoch = p]
          BY <3>5, <4>1
        <5> HIDE DEF r
        <5> QED  BY <3>3, <4>1, <5>1 DEF r
      <4>2. CASE x # req[s].sid
        BY <3>5, <4>2
      <4> QED  BY <4>1, <4>2
    <3> QED  BY <2>2, <3>1, <3>4, <3>6
  <2> QED  BY <2>1, <2>2
<1>4. TypeInv'
  BY <1>1, <1>2, <1>3, Typed DEF Save, TypeInv, TypeOK
<1> QED  BY <1>1, <1>2, <1>3, <1>4

LEMMA AdmitType ==
    ASSUME TypeInv, NEW s \in Slots, NEW op \in Guarded, NEW x \in Sessions, Admit(s, op, x)
    PROVE  TypeInv' /\ Keeps(s) /\ req'[s].step = "admitted"
<1>1. Keeps(s) /\ req'[s].step = "admitted"
  <2> DEFINE y == IF op = "change" THEN x ELSE NoSession
  <2>1. /\ y \in Sessions \union {NoSession} /\ op \in Ops /\ "admitted" \in Steps \ {"save", "rotate"}
        /\ Start(s, [Idle EXCEPT !.op = op, !.step = "admitted", !.sid = y])
    BY DEF Admit, Ops, Steps
  <2> HIDE DEF y
  <2> QED  BY <2>1, WithSession
<1> QED  BY <1>1, SameTyped DEF Admit, Rows

\* A row is as good as the one it takes the place of, but for the time it has.
Like(q, r) ==
    /\ q.open = r.open /\ q.gated = r.gated /\ q.mfa = r.mfa /\ q.epoch = r.epoch
    /\ q.cur = r.cur /\ q.prev = r.prev /\ q.minted = r.minted /\ q.spent = r.spent

\* Or is closed.
Shut(q, r) ==
    /\ ~q.open
    /\ q.cur = r.cur /\ q.prev = r.prev /\ q.minted = r.minted /\ q.spent = r.spent

\* Session x is s's new one.
Begun(s, x) ==
    /\ ~Live(x)
    /\ sess'[x].epoch = ident.password
    /\ sess'[x].gated = Gated /\ sess'[x].mfa = (req[s].op = "mfa")
    /\ sess'[x].cur = 1 /\ sess'[x].minted = 1 /\ sess'[x].spent = {}
    /\ \A y \in Sessions \ {x} : sess'[y] = sess[y]
    /\ req[s].op # "mfa" => links' = links
    /\ req[s].op = "mfa" => \A l \in Links :
        /\ links'[l].ttl = links[l].ttl
        /\ links'[l].opened = IF l = req[s].link THEN links[l].opened + 1 ELSE links[l].opened

LEMMA StartSessionType ==
    ASSUME TypeInv, NEW s \in Slots, NEW x \in Sessions, NEW d \in Devices, StartSession(s, x, d)
    PROVE  /\ TypeInv' /\ Keeps(s) /\ req'[s].step = "idle"
           /\ UNCHANGED <<sess, links>> \/ Begun(s, x)
<1>1. Keeps(s) /\ req'[s].step = "idle"
  BY AnswerKeeps DEF StartSession
<1>2. sess \in [Sessions -> SessionRows] /\ links \in [Links -> [ttl : Nat, opened : Nat]]
  BY DEF TypeInv, TypeOK
<1>3. CASE UNCHANGED <<sess, links>>
  BY <1>1, <1>3, SameTyped DEF StartSession, Rows
<1>4. CASE ~UNCHANGED <<sess, links>>
  <2> DEFINE r == [open |-> TRUE, cur |-> 1, prev |-> 0, ttl |-> RefreshTtl,
                   ceiling |-> SessionMax, device |-> d, mfa |-> req[s].op = "mfa",
                   epoch |-> ident.password, gated |-> Gated,
                   minted |-> 1, spent |-> {}]
  <2>1. r \in SessionRows
    <3>1. 1 \in 0..MaxTokens /\ 0 \in 0..MaxTokens /\ RefreshTtl \in Nat /\ SessionMax \in Nat
      BY BoundsAssumption
    <3>2. ident.password \in 0..MaxPasswords
      BY DEF TypeInv, TypeOK, Identities
    <3>3. Gated \in BOOLEAN /\ (req[s].op = "mfa") \in BOOLEAN
      BY DEF Gated
    <3> QED  BY <3>1, <3>2, <3>3 DEF SessionRows
  <2>2. /\ r.epoch = ident.password /\ r.gated = Gated /\ r.mfa = (req[s].op = "mfa")
        /\ r.cur = 1 /\ r.minted = 1 /\ r.spent = {}
    OBVIOUS
  <2>3. ~Live(x) /\ sess' = [sess EXCEPT ![x] = r]
    BY <1>4 DEF StartSession
  <2> HIDE DEF r
  <2>4. /\ sess' \in [Sessions -> SessionRows] /\ sess'[x] = r
        /\ \A y \in Sessions \ {x} : sess'[y] = sess[y]
    BY <1>2, <2>1, <2>3
  <2>5. /\ links' \in [Links -> [ttl : Nat, opened : Nat]]
        /\ req[s].op # "mfa" => links' = links
        /\ req[s].op = "mfa" => \A l \in Links :
            /\ links'[l].ttl = links[l].ttl
            /\ links'[l].opened = IF l = req[s].link THEN links[l].opened + 1 ELSE links[l].opened
    <3>1. CASE req[s].op = "mfa"
      <4>1. links' = [links EXCEPT ![req[s].link].opened = @ + 1]
        BY <1>4, <3>1 DEF StartSession
      <4>2. PICK k : k = req[s].link
        OBVIOUS
      <4>3. CASE k \in Links
        <5> DEFINE m == links[k]
                   n == [m EXCEPT !.opened = m.opened + 1]
        <5>1. m \in [ttl : Nat, opened : Nat] /\ links' = [links EXCEPT ![k] = n]
          BY <1>2, <4>1, <4>2, <4>3
        <5> HIDE DEF m
        <5>2. n \in [ttl : Nat, opened : Nat] /\ n.ttl = m.ttl /\ n.opened = m.opened + 1
          BY <5>1
        <5> HIDE DEF n
        <5>3. /\ links' \in [Links -> [ttl : Nat, opened : Nat]] /\ links'[k] = n
              /\ \A l \in Links \ {k} : links'[l] = links[l]
          BY <1>2, <4>3, <5>1, <5>2
        <5> QED  BY <3>1, <4>2, <5>2, <5>3 DEF m
      <4>4. CASE k \notin Links
        <5>1. links' = links
          BY <1>2, <4>1, <4>2, <4>4
        <5> QED  BY <1>2, <3>1, <4>2, <4>4, <5>1
      <4> QED  BY <4>3, <4>4
    <3>2. CASE req[s].op # "mfa"
      BY <1>2, <1>4, <3>2 DEF StartSession
    <3> QED  BY <3>1, <3>2
  <2>6. Begun(s, x)
    BY <2>2, <2>3, <2>4, <2>5 DEF Begun
  <2>7. TypeInv'
    BY <1>1, <2>4, <2>5, Typed DEF StartSession, TypeInv, TypeOK
  <2> QED  BY <1>1, <2>6, <2>7
<1> QED  BY <1>3, <1>4

LEMMA Recalled ==
    ASSUME TypeInv
    PROVE  hist \in [doubled : BOOLEAN, keptOpen : BOOLEAN, uncoded : BOOLEAN]
  BY DEF TypeInv, TypeOK

LEMMA RefreshType ==
    ASSUME TypeInv, NEW s \in Slots, NEW x \in Sessions, NEW t \in 1..MaxTokens, Refresh(s, x, t)
    PROVE  /\ TypeInv' /\ Keeps(s)
           /\ \/ req'[s].step = "revoke"
              \/ /\ req'[s].step = "rotate" /\ req'[s].sid = x /\ req'[s].copy = sess[x]
                 /\ CanLogIn(ident)
           /\ hist'.keptOpen = hist.keptOpen /\ hist'.uncoded = hist.uncoded
           /\ hist'.doubled = (hist.doubled \/ (~Reused(sess[x], t) /\ t \in sess[x].spent))
<1>1. sess[x] \in SessionRows
  BY DEF TypeInv, TypeOK
<1>2. /\ Keeps(s)
      /\ \/ req'[s].step = "revoke"
         \/ /\ req'[s].step = "rotate" /\ req'[s].sid = x /\ req'[s].copy = sess[x]
            /\ CanLogIn(ident)
  <2>1. CASE Reused(sess[x], t)
    BY <2>1, Plainly DEF Refresh, Ops, Steps
  <2>2. CASE ~Reused(sess[x], t)
    <3>1. sess[x].cur # 0
      BY <1>1, <2>2 DEF Refresh, Reused
    <3> QED  BY <2>2, <3>1, WithCopy DEF Refresh
  <2> QED  BY <2>1, <2>2
<1>3. /\ hist' \in [doubled : BOOLEAN, keptOpen : BOOLEAN, uncoded : BOOLEAN]
      /\ hist'.keptOpen = hist.keptOpen /\ hist'.uncoded = hist.uncoded
      /\ hist'.doubled = (hist.doubled \/ (~Reused(sess[x], t) /\ t \in sess[x].spent))
  <2> DEFINE b == hist.doubled \/ (~Reused(sess[x], t) /\ t \in sess[x].spent)
  <2>1. b \in BOOLEAN /\ hist' = [hist EXCEPT !.doubled = b]
    BY DEF Refresh
  <2> HIDE DEF b
  <2>2. hist' \in [doubled : BOOLEAN, keptOpen : BOOLEAN, uncoded : BOOLEAN]
        /\ hist'.keptOpen = hist.keptOpen /\ hist'.uncoded = hist.uncoded /\ hist'.doubled = b
    BY <2>1, Recalled
  <2> QED  BY <2>2 DEF b
<1> QED  BY <1>2, <1>3, Typed DEF Refresh, TypeInv, TypeOK

\* s has put a new token in session x, on the row it had read.
Rotated(s, x) ==
    LET c == req[s].copy IN
    /\ sess'[x].open = c.open /\ sess'[x].gated = c.gated /\ sess'[x].mfa = c.mfa
    /\ sess'[x].epoch = c.epoch
    /\ sess'[x].cur = sess[x].minted + 1 /\ sess'[x].minted = sess[x].minted + 1
    /\ sess'[x].spent = sess[x].spent \union {c.cur}

LEMMA RotateType ==
    ASSUME TypeInv, NEW s \in Slots, Rotate(s)
    PROVE  /\ TypeInv' /\ Keeps(s) /\ req'[s].step = "idle"
           /\ \A x \in Sessions : IF x = req[s].sid THEN Rotated(s, x) ELSE sess'[x] = sess[x]
           /\ hist'.keptOpen = hist.keptOpen /\ hist'.uncoded = hist.uncoded
           /\ hist'.doubled = (hist.doubled \/ req[s].copy.cur \in sess[req[s].sid].spent)
<1>1. Keeps(s) /\ req'[s].step = "idle"
  BY AnswerKeeps DEF Rotate
<1> DEFINE x == req[s].sid
           c == req[s].copy
           new == sess[x].minted + 1
           spent == sess[x].spent \union {c.cur}
           ttl == IF RefreshTtl < c.ceiling THEN RefreshTtl ELSE c.ceiling
<1>2. /\ sess' = [sess EXCEPT ![x] = [c EXCEPT !.prev = c.cur, !.cur = new, !.minted = new,
                                              !.ttl = ttl, !.spent = spent]]
      /\ new <= MaxTokens
  BY DEF Rotate
<1>3. sess \in [Sessions -> SessionRows] /\ c \in SessionRows /\ c.cur \in 1..MaxTokens
  <2>1. c \in SessionRows /\ c.cur # 0
    BY DEF TypeInv, TypeOK, Prepared, Rotate, Requests
  <2> QED  BY <2>1, BoundsAssumption DEF SessionRows, TypeInv, TypeOK
<1>4. /\ sess' \in [Sessions -> SessionRows]
      /\ \A y \in Sessions : IF y = x THEN Rotated(s, x) ELSE sess'[y] = sess[y]
  <2>1. CASE x \notin Sessions
    BY <1>2, <1>3, <2>1
  <2>2. CASE x \in Sessions
    <3>1. /\ new \in 0..MaxTokens /\ spent \in SUBSET (1..MaxTokens) /\ ttl \in Nat
          /\ c.cur \in 0..MaxTokens
      BY <1>2, <1>3, <2>2, BoundsAssumption DEF SessionRows
    <3> DEFINE r == [c EXCEPT !.prev = c.cur, !.cur = new, !.minted = new,
                              !.ttl = ttl, !.spent = spent]
    <3> HIDE DEF c, new, ttl, spent
    <3>2. /\ r \in SessionRows /\ r.open = c.open /\ r.gated = c.gated /\ r.mfa = c.mfa
          /\ r.epoch = c.epoch /\ r.cur = new /\ r.minted = new /\ r.spent = spent
      BY <1>3, <3>1 DEF SessionRows
    <3>3. sess' = [sess EXCEPT ![x] = r]
      BY <1>2
    <3> HIDE DEF r
    <3>4. sess' \in [Sessions -> SessionRows] /\ sess'[x] = r
          /\ \A y \in Sessions \ {x} : sess'[y] = sess[y]
      BY <1>3, <2>2, <3>2, <3>3
    <3>5. Rotated(s, x)
      BY <3>2, <3>4 DEF Rotated, c, new, spent
    <3> QED  BY <3>4, <3>5
  <2> QED  BY <2>1, <2>2
<1>5. /\ hist' \in [doubled : BOOLEAN, keptOpen : BOOLEAN, uncoded : BOOLEAN]
      /\ hist'.keptOpen = hist.keptOpen /\ hist'.uncoded = hist.uncoded
      /\ hist'.doubled = (hist.doubled \/ c.cur \in sess[x].spent)
  <2> DEFINE b == hist.doubled \/ c.cur \in sess[x].spent
  <2>1. b \in BOOLEAN /\ hist' = [hist EXCEPT !.doubled = b]
    BY DEF Rotate
  <2> HIDE DEF b
  <2>2. hist' \in [doubled : BOOLEAN, keptOpen : BOOLEAN, uncoded : BOOLEAN]
        /\ hist'.keptOpen = hist.keptOpen /\ hist'.uncoded = hist.uncoded /\ hist'.doubled = b
    BY <2>1, Recalled
  <2> QED  BY <2>2 DEF b
<1> HIDE DEF c, new, ttl, spent
<1>6. TypeInv'
  BY <1>1, <1>4, <1>5, Typed DEF Rotate, TypeInv, TypeOK
<1> QED  BY <1>1, <1>4, <1>5, <1>6 DEF x, c

LEMMA LogOutType ==
    ASSUME TypeInv, NEW s \in Slots, NEW x \in Sessions, LogOut(s, x)
    PROVE  /\ TypeInv' /\ Keeps(s) /\ req' = req
           /\ \A y \in Sessions : sess'[y] = sess[y] \/ Shut(sess'[y], sess[y])
<1>1. Keeps(s) /\ req' = req
  BY StillKeeps DEF LogOut
<1>2. sess[x] \in SessionRows /\ sess \in [Sessions -> SessionRows]
  BY DEF TypeInv, TypeOK
<1>3. /\ sess' \in [Sessions -> SessionRows]
      /\ \A y \in Sessions : sess'[y] = sess[y] \/ Shut(sess'[y], sess[y])
  BY <1>2, ClosedRow DEF LogOut, Shut
<1> QED  BY <1>1, <1>3, Typed DEF LogOut, TypeInv, TypeOK

LEMMA RevokeAllType ==
    ASSUME TypeInv, NEW s \in Slots, RevokeAll(s)
    PROVE  /\ TypeInv' /\ Keeps(s) /\ req'[s].step = "idle"
           /\ \A y \in Sessions : Shut(sess'[y], sess[y])
<1>1. Keeps(s) /\ req'[s].step = "idle"
  BY AnswerKeeps DEF RevokeAll
<1>2. sess \in [Sessions -> SessionRows]
  BY DEF TypeInv, TypeOK
<1>3. /\ sess' \in [Sessions -> SessionRows]
      /\ \A y \in Sessions : Shut(sess'[y], sess[y])
  BY <1>2, ClosedRow DEF RevokeAll, Shut
<1> QED  BY <1>1, <1>3, Typed DEF RevokeAll, TypeInv, TypeOK

LEMMA ListType ==
    ASSUME TypeInv, NEW s \in Slots, NEW d \in Devices, List(s, d)
    PROVE  /\ TypeInv' /\ Keeps(s)
           /\ \/ /\ req'[s].step = "revoke_one" /\ req'[s].op = req[s].op
                 /\ req[s].op = "change" =>
                      req'[s].todo = {x \in Sessions : Live(x)} \ {req[s].sid}
              \/ /\ req'[s].step = "idle"
                 /\ req[s].op = "change" => \A x \in Sessions : Live(x) => x = req[s].sid
<1> DEFINE todo == IF req[s].op = "change"
                   THEN {x \in Sessions : Live(x)} \ {req[s].sid}
                   ELSE {x \in Sessions : Live(x) /\ sess[x].device = d}
<1>1. IF todo = {} THEN Answer(s)
      ELSE req' = [req EXCEPT ![s].step = "revoke_one", ![s].todo = todo]
  BY DEF List
<1>2. todo \in SUBSET Sessions
  OBVIOUS
<1>3. req[s].op = "change" => todo = {x \in Sessions : Live(x)} \ {req[s].sid}
  OBVIOUS
<1> HIDE DEF todo
<1>4. CASE todo = {}
  <2>1. Keeps(s) /\ req'[s].step = "idle"
    BY <1>1, <1>4, AnswerKeeps
  <2>2. req[s].op = "change" => \A x \in Sessions : Live(x) => x = req[s].sid
    BY <1>3, <1>4
  <2> QED  BY <2>1, <2>2, SameTyped DEF List, Rows
<1>5. CASE todo # {}
  <2>1. Keeps(s) /\ req'[s].step = "revoke_one" /\ req'[s].op = req[s].op /\ req'[s].todo = todo
    BY <1>1, <1>2, <1>5, ListKeeps
  <2> QED  BY <1>3, <2>1, SameTyped DEF List, Rows
<1> QED  BY <1>4, <1>5

LEMMA RevokeOneType ==
    ASSUME TypeInv, NEW s \in Slots, NEW x \in Sessions, RevokeOne(s, x)
    PROVE  /\ TypeInv' /\ Keeps(s)
           /\ \/ /\ req'[s].step = "revoke_one" /\ req'[s].op = req[s].op
                 /\ req'[s].todo = req[s].todo \ {x}
              \/ req'[s].step = "idle" /\ req[s].todo = {x}
           /\ Shut(sess'[x], sess[x])
           /\ \A y \in Sessions \ {x} : sess'[y] = sess[y]
<1>1. /\ Keeps(s)
      /\ \/ /\ req'[s].step = "revoke_one" /\ req'[s].op = req[s].op
            /\ req'[s].todo = req[s].todo \ {x}
         \/ req'[s].step = "idle" /\ req[s].todo = {x}
  <2>1. CASE req[s].todo = {x}
    BY <2>1, AnswerKeeps DEF RevokeOne
  <2>2. CASE req[s].todo # {x}
    <3> DEFINE todo == req[s].todo \ {x}
    <3>1. todo \in SUBSET Sessions
      BY DEF TypeInv, TypeOK, Requests
    <3>2. req' = [req EXCEPT ![s].todo = todo] /\ At(s, "revoke_one")
      BY <2>2 DEF RevokeOne
    <3> HIDE DEF todo
    <3>3. Keeps(s) /\ req'[s].step = "revoke_one" /\ req'[s].op = req[s].op /\ req'[s].todo = todo
      BY <3>1, <3>2, OffListKeeps
    <3> QED  BY <3>3 DEF todo
  <2> QED  BY <2>1, <2>2
<1>2. sess[x] \in SessionRows /\ sess \in [Sessions -> SessionRows]
  BY DEF TypeInv, TypeOK
<1>3. /\ sess' \in [Sessions -> SessionRows]
      /\ Shut(sess'[x], sess[x])
      /\ \A y \in Sessions \ {x} : sess'[y] = sess[y]
  BY <1>2, ClosedRow DEF RevokeOne, Shut
<1> QED  BY <1>1, <1>3, Typed DEF RevokeOne, TypeInv, TypeOK

\* No factor is switched on.
NoMoreFactors == \A f \in Factors : factors'[f] = "active" => factors[f] = "active"

LEMMA EnrolType ==
    ASSUME TypeInv, NEW s \in Slots, Enrol(s)
    PROVE  TypeInv' /\ Keeps(s) /\ req'[s].step = "enrol" /\ NoMoreFactors
<1>1. Keeps(s) /\ req'[s].step = "enrol"
  BY GoKeeps DEF Enrol, Steps
<1>2. NoMoreFactors /\ factors' \in [Factors -> {"absent", "unconfirmed", "active"}]
  BY DEF Enrol, NoMoreFactors
<1> QED  BY <1>1, <1>2, Typed DEF Enrol, TypeInv, TypeOK

LEMMA CreateFactorType ==
    ASSUME TypeInv, NEW s \in Slots, CreateFactor(s)
    PROVE  TypeInv' /\ Keeps(s) /\ req'[s].step = "idle" /\ NoMoreFactors
<1>1. Keeps(s) /\ req'[s].step = "idle"
  BY AnswerKeeps DEF CreateFactor
<1>2. NoMoreFactors /\ factors' \in [Factors -> {"absent", "unconfirmed", "active"}]
  BY DEF CreateFactor, NoMoreFactors, TypeInv, TypeOK
<1> QED  BY <1>1, <1>2, Typed DEF CreateFactor, TypeInv, TypeOK

LEMMA ConfirmType ==
    ASSUME TypeInv, NEW s \in Slots, NEW f \in Factors, Confirm(s, f)
    PROVE  TypeInv' /\ Keeps(s) /\ req'[s].step = "codes" /\ req'[s].op = "confirm"
<1>1. Keeps(s) /\ req'[s].step = "codes" /\ req'[s].op = "confirm"
  BY GoKeeps DEF Confirm, Admitted, Steps
<1>2. /\ factors' \in [Factors -> {"absent", "unconfirmed", "active"}]
      /\ unspent' \in SUBSET Factors
  BY DEF Confirm, TypeInv, TypeOK
<1> QED  BY <1>1, <1>2, Typed DEF Confirm, TypeInv, TypeOK

LEMMA DisableType ==
    ASSUME TypeInv, NEW s \in Slots, Disable(s)
    PROVE  TypeInv' /\ Keeps(s) /\ req'[s].step = "drop" /\ req'[s].op = "disable"
<1>1. Keeps(s) /\ req'[s].step = "drop" /\ req'[s].op = "disable"
  BY GoKeeps DEF Disable, Admitted, Steps
<1> QED  BY <1>1, SameTyped DEF Disable, Rows

LEMMA DropType ==
    ASSUME TypeInv, NEW s \in Slots, Drop(s)
    PROVE  /\ TypeInv' /\ Keeps(s) /\ req'[s].op = req[s].op /\ NoMoreFactors
           /\ \/ req'[s].step = "drop"
              \/ req'[s].step = "codes" /\ ~Gated'
<1> DEFINE some == \E f \in Factors : /\ factors[f] # "absent"
                                      /\ factors' = [factors EXCEPT ![f] = "absent"]
                                      /\ unspent' = unspent \ {f}
                                      /\ UNCHANGED req
           none == /\ \A f \in Factors : factors[f] = "absent"
                   /\ Go(s, "codes")
                   /\ UNCHANGED <<factors, unspent>>
<1>0. (some \/ none) /\ At(s, "drop")
  BY DEF Drop
<1>1. CASE some
  <2>1. /\ Keeps(s) /\ req' = req /\ req[s].step = "drop"
        /\ factors' \in [Factors -> {"absent", "unconfirmed", "active"}]
        /\ unspent' \in SUBSET Factors /\ NoMoreFactors
    BY <1>0, <1>1, StillKeeps DEF At, NoMoreFactors, TypeInv, TypeOK
  <2> QED  BY <2>1, Typed DEF Drop, TypeInv, TypeOK
<1>2. CASE none
  <2>1. Keeps(s) /\ req'[s].step = "codes" /\ req'[s].op = req[s].op
    BY <1>2, GoKeeps DEF Steps
  <2>2. NoMoreFactors /\ ~Gated'
    BY <1>2 DEF NoMoreFactors, Gated
  <2> QED  BY <1>2, <2>1, <2>2, Typed DEF Drop, TypeInv, TypeOK
<1> QED  BY <1>0, <1>1, <1>2

LEMMA RegenerateType ==
    ASSUME TypeInv, NEW s \in Slots, Regenerate(s)
    PROVE  TypeInv' /\ Keeps(s) /\ req'[s].step = "codes" /\ req'[s].op = "regenerate"
<1>1. Keeps(s) /\ req'[s].step = "codes" /\ req'[s].op = "regenerate"
  BY GoKeeps DEF Regenerate, Admitted, Steps
<1> QED  BY <1>1, SameTyped DEF Regenerate, Rows

LEMMA ReplaceCodesType ==
    ASSUME TypeInv, NEW s \in Slots, ReplaceCodes(s)
    PROVE  /\ TypeInv' /\ Keeps(s) /\ req'[s].step = "idle"
           /\ req[s].op # "disable" => \A c \in Codes : codes'[c] # "absent"
<1>1. Keeps(s) /\ req'[s].step = "idle"
  BY AnswerKeeps DEF ReplaceCodes
<1>2. /\ codes' \in [Codes -> {"absent", "unspent", "spent"}]
      /\ req[s].op # "disable" => \A c \in Codes : codes'[c] # "absent"
  BY DEF ReplaceCodes
<1> QED  BY <1>1, <1>2, Typed DEF ReplaceCodes, TypeInv, TypeOK

LEMMA FactorType ==
    ASSUME TypeInv, NEW s \in Slots, Factor(s)
    PROVE  /\ TypeInv' /\ Keeps(s)
           /\ \/ req'[s].step = "spend" /\ req'[s].op = req[s].op /\ req'[s].link = req[s].link
              \/ req'[s].step = "idle"
           /\ \A c \in Codes : codes[c] # "absent" => codes'[c] # "absent"
<1> DEFINE one == \E f \in unspent : /\ factors[f] = "active"
                                     /\ unspent' = unspent \ {f}
                                     /\ Go(s, "spend")
                                     /\ UNCHANGED codes
           two == \E c \in Codes : /\ codes[c] = "unspent"
                                   /\ codes' = [codes EXCEPT ![c] = "spent"]
                                   /\ Go(s, "spend")
                                   /\ UNCHANGED unspent
           three == Answer(s) /\ UNCHANGED <<codes, unspent>>
<1>0. one \/ two \/ three
  BY DEF Factor
<1>1. /\ Keeps(s)
      /\ \/ req'[s].step = "spend" /\ req'[s].op = req[s].op /\ req'[s].link = req[s].link
         \/ req'[s].step = "idle"
  <2>1. CASE Go(s, "spend")
    BY <2>1, GoKeeps DEF Steps
  <2>2. CASE Answer(s)
    BY <2>2, AnswerKeeps
  <2> QED  BY <1>0, <2>1, <2>2
<1>2. /\ unspent' \in SUBSET Factors /\ codes' \in [Codes -> {"absent", "unspent", "spent"}]
      /\ \A c \in Codes : codes[c] # "absent" => codes'[c] # "absent"
  <2>1. unspent \in SUBSET Factors /\ codes \in [Codes -> {"absent", "unspent", "spent"}]
    BY DEF TypeInv, TypeOK
  <2> QED  BY <1>0, <2>1
<1> HIDE DEF one, two, three
<1>3. TypeInv'
  BY <1>1, <1>2, Typed DEF Factor, TypeInv, TypeOK
<1> QED  BY <1>1, <1>2, <1>3

LEMMA AbortType ==
    ASSUME TypeInv, NEW s \in Slots, Abort(s)
    PROVE  /\ TypeInv' /\ Keeps(s) /\ req'[s].step = "idle"
           /\ hist'.doubled = hist.doubled
           /\ hist'.keptOpen = (hist.keptOpen \/ Ending(s))
           /\ hist'.uncoded = (hist.uncoded \/ (At(s, "codes") /\ req[s].op = "confirm"))
<1>1. Keeps(s) /\ req'[s].step = "idle"
  BY AnswerKeeps DEF Abort
<1>2. aborts' \in 0..MaxAborts
  BY BoundsAssumption DEF Abort, TypeInv, TypeOK
<1> DEFINE b == hist.keptOpen \/ Ending(s)
           c == hist.uncoded \/ (At(s, "codes") /\ req[s].op = "confirm")
<1>3. /\ hist' \in [doubled : BOOLEAN, keptOpen : BOOLEAN, uncoded : BOOLEAN]
      /\ hist'.doubled = hist.doubled /\ hist'.keptOpen = b /\ hist'.uncoded = c
  <2>1. b \in BOOLEAN /\ c \in BOOLEAN /\ hist' = [hist EXCEPT !.keptOpen = b, !.uncoded = c]
    BY DEF Abort, Ending, At
  <2> HIDE DEF b, c
  <2> QED  BY <2>1, Recalled
<1> HIDE DEF b, c
<1>4. TypeInv'
  BY <1>1, <1>2, <1>3, Typed DEF Abort, TypeInv, TypeOK
<1> QED  BY <1>1, <1>3, <1>4 DEF b, c

LEMMA TickType ==
    ASSUME TypeInv, Tick
    PROVE  /\ TypeInv' /\ req' = req
           /\ ident'.status = ident.status /\ ident'.password = ident.password
           /\ \A x \in Sessions : Shut(sess'[x], sess[x]) \/ Like(sess'[x], sess[x])
           /\ \A l \in Links : \/ links'[l].ttl = 0 /\ links'[l].opened = 0
                               \/ links'[l].opened = links[l].opened /\ links[l].ttl > 1
<1>0. /\ ident \in Identities /\ sess \in [Sessions -> SessionRows]
      /\ links \in [Links -> [ttl : Nat, opened : Nat]]
  BY DEF TypeInv, TypeOK
<1>1. ident' \in Identities /\ ident'.status = ident.status /\ ident'.password = ident.password
  <2> DEFINE a == Down(ident.lock)
             b == Down(ident.grace)
  <2>0. ASSUME NEW m \in Nat, NEW n \in 0..m PROVE Down(n) \in 0..m
    BY DEF Down
  <2>1. a \in 0..LockS /\ b \in 0..Grace
    <3>1. ident.lock \in 0..LockS /\ ident.grace \in 0..Grace /\ LockS \in Nat /\ Grace \in Nat
      BY <1>0, BoundsAssumption DEF Identities
    <3> QED  BY <2>0, <3>1
  <2>2. ident' = [ident EXCEPT !.lock = a, !.grace = b]
    BY DEF Tick
  <2> HIDE DEF a, b
  <2> QED  BY <1>0, <2>1, <2>2 DEF Identities
<1>2. /\ sess' \in [Sessions -> SessionRows]
      /\ \A x \in Sessions : Shut(sess'[x], sess[x]) \/ Like(sess'[x], sess[x])
  <2>1. ASSUME NEW r \in SessionRows
        PROVE  LET q == IF r.ttl <= 1 \/ r.ceiling <= 1 THEN Closed(r)
                        ELSE [r EXCEPT !.ttl = r.ttl - 1, !.ceiling = r.ceiling - 1]
               IN  q \in SessionRows /\ (Shut(q, r) \/ Like(q, r))
    <3>1. CASE r.ttl <= 1 \/ r.ceiling <= 1
      BY <3>1, ClosedRow DEF Shut
    <3>2. CASE ~(r.ttl <= 1 \/ r.ceiling <= 1)
      <4> DEFINE a == r.ttl - 1
                 b == r.ceiling - 1
                 q == [r EXCEPT !.ttl = a, !.ceiling = b]
      <4>1. a \in Nat /\ b \in Nat
        BY <3>2 DEF SessionRows
      <4> HIDE DEF a, b
      <4>2. q \in SessionRows /\ Like(q, r)
        BY <4>1 DEF SessionRows, Like
      <4> QED  BY <3>2, <4>2 DEF a, b
    <3> QED  BY <3>1, <3>2
  <2> DEFINE Q(r) == IF r.ttl <= 1 \/ r.ceiling <= 1 THEN Closed(r)
                     ELSE [r EXCEPT !.ttl = r.ttl - 1, !.ceiling = r.ceiling - 1]
  <2>2. \A r \in SessionRows : Q(r) \in SessionRows /\ (Shut(Q(r), r) \/ Like(Q(r), r))
    BY <2>1
  <2>3. sess' = [x \in Sessions |-> Q(sess[x])]
    BY DEF Tick
  <2> HIDE DEF Q
  <2> QED  BY <1>0, <2>2, <2>3
<1>3. /\ links' \in [Links -> [ttl : Nat, opened : Nat]]
      /\ \A l \in Links : \/ links'[l].ttl = 0 /\ links'[l].opened = 0
                          \/ links'[l].opened = links[l].opened /\ links[l].ttl > 1
  <2>1. ASSUME NEW m \in [ttl : Nat, opened : Nat]
        PROVE  LET n == IF m.ttl <= 1 THEN [ttl |-> 0, opened |-> 0] ELSE [m EXCEPT !.ttl = m.ttl - 1]
               IN  /\ n \in [ttl : Nat, opened : Nat]
                   /\ \/ n.ttl = 0 /\ n.opened = 0
                      \/ n.opened = m.opened /\ m.ttl > 1
    OBVIOUS
  <2> DEFINE N(m) == IF m.ttl <= 1 THEN [ttl |-> 0, opened |-> 0] ELSE [m EXCEPT !.ttl = m.ttl - 1]
  <2>2. \A m \in [ttl : Nat, opened : Nat] :
            /\ N(m) \in [ttl : Nat, opened : Nat]
            /\ \/ N(m).ttl = 0 /\ N(m).opened = 0
               \/ N(m).opened = m.opened /\ m.ttl > 1
    BY <2>1
  <2>3. links' = [l \in Links |-> N(links[l])]
    BY DEF Tick
  <2> HIDE DEF N
  <2> QED  BY <1>0, <2>2, <2>3
<1>4. req' = req /\ unspent' \in SUBSET Factors
  BY DEF Tick
<1>5. TypeInv'
  BY <1>1, <1>2, <1>3, <1>4 DEF Tick, TypeInv, TypeOK, Prepared, At
<1> QED  BY <1>1, <1>2, <1>3, <1>4, <1>5

LEMMA TypeStep ==
    ASSUME TypeInv, [Next]_vars
    PROVE  TypeInv'
<1>1. ASSUME NEW s \in Slots, LinkSteps(s) PROVE TypeInv'
  BY <1>1, SignUpType, AskType, InvalidateType, CreateLinkType, PresentType, SpendLinkType
     DEF LinkSteps
<1>2. ASSUME NEW s \in Slots, IdentitySteps(s) PROVE TypeInv'
  BY <1>2, LogInType, ReadType, ReadAgainType, DueType, SaveType DEF IdentitySteps
<1>3. ASSUME NEW s \in Slots, SessionSteps(s) PROVE TypeInv'
  BY <1>3, AdmitType, StartSessionType, RefreshType, RotateType, LogOutType, RevokeAllType,
     ListType, RevokeOneType DEF SessionSteps
<1>4. ASSUME NEW s \in Slots, FactorSteps(s) PROVE TypeInv'
  BY <1>4, EnrolType, CreateFactorType, ConfirmType, DisableType, DropType, RegenerateType,
     ReplaceCodesType, FactorType DEF FactorSteps
<1>5. CASE UNCHANGED vars
  BY <1>5 DEF TypeInv, TypeOK, Prepared, At, vars
<1> QED  BY <1>1, <1>2, <1>3, <1>4, <1>5, AbortType, TickType DEF Next

LEMMA TypeInit == Init => TypeInv
<1> SUFFICES ASSUME Init PROVE TypeInv
  OBVIOUS
<1>1. /\ ident \in Identities /\ sess \in [Sessions -> SessionRows] /\ req \in [Slots -> Requests]
      /\ \A s \in Slots : req[s].step = "idle"
  BY RowsTyped, IdleTyped DEF Init
<1> QED  BY <1>1, BoundsAssumption DEF Init, TypeInv, TypeOK, Prepared, At

\* The rows keep their types, with one process or several: no password or token
\* is counted past its bound, and what a handler saves is a row.
THEOREM TypeCorrect == Spec => []TypeOK
<1>1. TypeInv /\ [Next]_vars => TypeInv'
  BY TypeStep
<1>2. TypeInv => TypeOK
  BY DEF TypeInv
<1> QED  BY <1>1, <1>2, TypeInit, PTL DEF Spec

-----------------------------------------------------------------------------
(* What one process at a time keeps.                                       *)

\* One handler is at work at a time.
OneHandler == \A s, t \in Slots : InHandler(s) /\ InHandler(t) => s = t

\* A challenge that somebody answers has opened nothing yet.
Unopened(s) ==
    req[s].op = "mfa" /\ req[s].link \in Links /\ links[req[s].link].opened = 0

\* What a handler has read is as it was, and the way it went by says what is so.
HandlerOK(s) ==
    /\ At(s, "save") => req[s].row = ident
    /\ At(s, "save") /\ req[s].op = "login" => ident.status # "deleted"
    /\ At(s, "gate") => req[s].op = "login" /\ CanLogIn(ident)
    /\ At(s, "factor") => Unopened(s) /\ CanLogIn(ident)
    /\ At(s, "spend") /\ req[s].op = "mfa" => Unopened(s) /\ CanLogIn(ident)
    /\ At(s, "session") => Unopened(s) /\ CanLogIn(ident) /\ ~Usable(req[s].link)
    /\ At(s, "rotate") => /\ req[s].sid \in Sessions /\ req[s].copy = sess[req[s].sid]
                          /\ CanLogIn(ident)
    /\ At(s, "list") => req[s].op = "change"
    /\ At(s, "drop") => req[s].op = "disable"
    /\ At(s, "codes") /\ req[s].op = "disable" => ~Gated

\* Nothing is there before the account is.
Unborn ==
    ident.status = "absent" =>
        /\ \A s \in Slots : At(s, "idle")
        /\ \A x \in Sessions : ~Live(x) /\ sess[x].cur = 0 /\ sess[x].prev = 0
        /\ \A l \in Links : ~Usable(l)

\* Session x is one that s is yet to end.
Ends(s, x) ==
    \/ At(s, "revoke")
    \/ At(s, "list") /\ req[s].sid # x
    \/ At(s, "revoke_one") /\ req[s].op = "change" /\ x \in req[s].todo

UpToDate ==
    \A x \in Sessions : Live(x) =>
        \/ sess[x].epoch = ident.password
        \/ hist.keptOpen
        \/ \E s \in Slots : Ends(s, x)

IsLeaving == ident.status \in {"pending_deletion", "deleted"}

SignedOut ==
    IsLeaving => \/ \A x \in Sessions : ~Live(x)
                 \/ hist.keptOpen
                 \/ \E s \in Slots : At(s, "revoke")

\* A row's token is its latest, and not one that was exchanged.
TokensOK(r) == r.cur <= r.minted /\ r.cur \notin r.spent /\ \A t \in r.spent : t <= r.minted

Tokens == ~hist.doubled /\ \A x \in Sessions : TokensOK(sess[x])

\* A challenge that can be used has opened nothing.
Challenged ==
    /\ \A x \in Sessions : Live(x) /\ sess[x].gated => sess[x].mfa
    /\ \A l \in Links : links[l].opened <= 1 /\ (Usable(l) => links[l].opened = 0)

Recoverable ==
    Gated => \/ \A c \in Codes : codes[c] # "absent"
             \/ hist.uncoded
             \/ \E s \in Slots : At(s, "codes") /\ req[s].op = "confirm"

\* What the store and the history show, whoever is at work.
Kept == UpToDate /\ SignedOut /\ Tokens /\ Challenged /\ Recoverable /\ Unborn

AuthInv == TypeInv /\ OneHandler /\ (\A s \in Slots : HandlerOK(s)) /\ Kept

\* s may be at work, and is alone.
Alone(s) == \A t \in Slots \ {s} : ~InHandler(t)

\* s has nothing to make good.
Calm(s) == ~Ending(s) /\ ~At(s, "codes")

\* Then the store itself shows what is owed to nobody.
AllCurrent == \A x \in Sessions : Live(x) => sess[x].epoch = ident.password \/ hist.keptOpen

AllOut == IsLeaving => (\A x \in Sessions : ~Live(x)) \/ hist.keptOpen

AllCoded == Gated => (\A c \in Codes : codes[c] # "absent") \/ hist.uncoded

AllClear == AllCurrent /\ AllOut /\ AllCoded

LEMMA RestIsAlone ==
    ASSUME Serial, AuthInv, NEW s \in Slots, InHandler(s) \/ Free(s)
    PROVE  Alone(s)
  BY DEF AuthInv, OneHandler, Free, Alone

\* What s may yet owe, when it is alone.
LEMMA Owed ==
    ASSUME AuthInv, NEW s \in Slots, Alone(s)
    PROVE  /\ \A x \in Sessions : Live(x) =>
                  sess[x].epoch = ident.password \/ hist.keptOpen \/ Ends(s, x)
           /\ IsLeaving => (\A x \in Sessions : ~Live(x)) \/ hist.keptOpen \/ At(s, "revoke")
           /\ Gated => \/ \A c \in Codes : codes[c] # "absent"
                       \/ hist.uncoded
                       \/ At(s, "codes") /\ req[s].op = "confirm"
<1>1. ASSUME NEW t \in Slots \ {s}
      PROVE  ~At(t, "revoke") /\ ~At(t, "list") /\ ~At(t, "revoke_one") /\ ~At(t, "codes")
  BY DEF Alone, InHandler, At
<1>2. \A t \in Slots, x \in Sessions : Ends(t, x) => t = s
  BY <1>1 DEF Ends
<1> QED  BY <1>1, <1>2 DEF AuthInv, Kept, UpToDate, SignedOut, Recoverable

LEMMA Cleared ==
    ASSUME AuthInv, NEW s \in Slots, Alone(s), Calm(s)
    PROVE  AllClear
  BY Owed DEF Calm, Ending, Ends, At, AllClear, AllCurrent, AllOut, AllCoded

LEMMA ClearedAll ==
    ASSUME AuthInv, \A t \in Slots : ~InHandler(t)
    PROVE  AllClear
<1>1. \A t \in Slots : ~Ending(t) /\ ~At(t, "codes")
  BY DEF InHandler, Ending, At
<1> QED  BY <1>1 DEF AuthInv, Kept, UpToDate, SignedOut, Recoverable, Ends, Ending, At,
                     AllClear, AllCurrent, AllOut, AllCoded

\* A request that has begun is one of an account.
LEMMA Born ==
    ASSUME AuthInv, NEW s \in Slots, ~At(s, "idle")
    PROVE  ident.status # "absent"
  BY DEF AuthInv, Kept, Unborn

LEMMA BornAlive ==
    ASSUME AuthInv, NEW x \in Sessions, Live(x) \/ sess[x].cur # 0 \/ sess[x].prev # 0
    PROVE  ident.status # "absent"
  BY DEF AuthInv, Kept, Unborn

\* What s does is s's alone, and the invariant is kept when s's part of it is.
LEMMA Together ==
    ASSUME AuthInv, NEW s \in Slots, Alone(s), TypeInv', Keeps(s), HandlerOK(s)', Kept'
    PROVE  AuthInv'
<1>1. ASSUME NEW t \in Slots \ {s}
      PROVE  HandlerOK(t)' /\ ~InHandler(t)' /\ (\A v \in Slots : InHandler(v)' => v = s)
  <2>1. \A v \in Slots \ {s} : req'[v] = req[v] /\ ~InHandler(v)
    BY DEF Alone, Keeps
  <2>2. \A v \in Slots \ {s} : ~InHandler(v)'
    BY <2>1 DEF InHandler
  <2>3. req'[t].step \in {"idle", "admitted"}
    BY <2>1 DEF InHandler
  <2>4. HandlerOK(t)'
    BY <2>3 DEF HandlerOK, At
  <2> QED  BY <2>2, <2>4
<1>2. OneHandler'
  BY <1>1 DEF OneHandler
<1> QED  BY <1>1, <1>2 DEF AuthInv

\* An answered request, or one admitted, has nothing to keep.
LEMMA DoneIsOK ==
    ASSUME NEW s \in Slots, req'[s].step \in {"idle", "admitted", "links", "link", "read",
                                             "revoke", "revoke_one", "enrol"}
    PROVE  HandlerOK(s)'
  BY DEF HandlerOK, At

-----------------------------------------------------------------------------
(* What keeps what the store shows.                                        *)

\* Sessions go on as they were, or are closed.
Fading ==
    \A x \in Sessions : Live(x)' =>
        /\ Live(x) /\ sess'[x].epoch = sess[x].epoch
        /\ sess'[x].gated = sess[x].gated /\ sess'[x].mfa = sess[x].mfa

\* No token changes hands.
TokensRest ==
    \A x \in Sessions : /\ sess'[x].cur = sess[x].cur /\ sess'[x].minted = sess[x].minted
                        /\ sess'[x].spent = sess[x].spent

\* Links have opened what they had, and none can be used again.
Ageing ==
    \A l \in Links : \/ links'[l].opened = 0
                     \/ /\ links'[l].opened = links[l].opened
                        /\ links'[l].ttl > 0 => links[l].ttl > 0

\* The account is no more leaving than it was.
Staying ==
    /\ ident'.password = ident.password /\ ident'.status # "absent"
    /\ ident'.status \in {"pending_deletion", "deleted"} => IsLeaving

HistRests ==
    hist'.doubled = hist.doubled /\ hist'.keptOpen = hist.keptOpen /\ hist'.uncoded = hist.uncoded

CodesRest ==
    /\ hist'.uncoded = hist.uncoded
    /\ \A c \in Codes : codes[c] # "absent" => codes'[c] # "absent"

LEMMA SteadySessions ==
    ASSUME AllCurrent, AllOut, Fading, hist'.keptOpen = hist.keptOpen,
           ident'.password = ident.password,
           ident'.status \in {"pending_deletion", "deleted"} => IsLeaving
    PROVE  UpToDate' /\ SignedOut'
  BY DEF AllCurrent, AllOut, UpToDate, SignedOut, IsLeaving, Fading

LEMMA SteadyTokens ==
    ASSUME AuthInv, TokensRest, hist'.doubled = hist.doubled
    PROVE  Tokens'
  BY DEF AuthInv, Kept, Tokens, TokensOK, TokensRest

LEMMA SteadyLinks ==
    ASSUME AuthInv, Fading, Ageing
    PROVE  Challenged'
  BY DEF AuthInv, TypeInv, TypeOK, Kept, Challenged, Usable, Ageing, Fading

LEMMA SteadyCodes ==
    ASSUME AllCoded, NoMoreFactors, CodesRest
    PROVE  Recoverable'
<1>1. Gated' => Gated
  BY DEF NoMoreFactors, Gated
<1> QED  BY <1>1 DEF AllCoded, Recoverable, CodesRest

\* Nothing of it has changed but for links and sessions growing old.
LEMMA Steady ==
    ASSUME AuthInv, AllClear, Fading, TokensRest, Ageing, HistRests, NoMoreFactors, Staying,
           CodesRest
    PROVE  Kept'
<1>1. UpToDate' /\ SignedOut' /\ Tokens' /\ Challenged' /\ Recoverable'
  BY SteadySessions, SteadyTokens, SteadyLinks, SteadyCodes DEF HistRests, Staying, AllClear
<1>2. Unborn'
  BY DEF Unborn, Staying
<1> QED  BY <1>1, <1>2 DEF Kept

\* Rows as they are do all that.
LEMMA Rests ==
    /\ UNCHANGED sess => Fading /\ TokensRest
    /\ UNCHANGED links => Ageing
    /\ UNCHANGED factors => NoMoreFactors
    /\ UNCHANGED <<codes, hist>> => CodesRest
    /\ UNCHANGED hist => HistRests
    /\ UNCHANGED ident /\ ident.status # "absent" => Staying
  BY DEF Fading, TokensRest, Ageing, NoMoreFactors, CodesRest, HistRests, Staying, Live, IsLeaving

LEMMA Same ==
    ASSUME AuthInv, AllClear, UNCHANGED <<ident, sess, links, factors, codes, hist>>,
           ident.status # "absent"
    PROVE  Kept'
  BY Rests, Steady

-----------------------------------------------------------------------------
(* The steps of one process.                                               *)

LEMMA BeginsClear ==
    ASSUME Serial, AuthInv, NEW s \in Slots, req[s].step \in {"idle", "admitted"}, Free(s)
    PROVE  Alone(s) /\ Calm(s) /\ AllClear
<1>1. Alone(s) /\ Calm(s)
  BY RestIsAlone DEF Calm, Ending, At
<1> QED  BY <1>1, Cleared

LEMMA WorkClear ==
    ASSUME Serial, AuthInv, NEW s \in Slots,
           req[s].step \in {"links", "link", "spend", "read", "save", "gate", "factor", "session",
                            "rotate", "enrol", "drop"}
    PROVE  Alone(s) /\ Calm(s) /\ AllClear /\ ident.status # "absent" /\ HandlerOK(s)
<1>1. Alone(s) /\ Calm(s)
  BY RestIsAlone DEF Calm, Ending, At, InHandler
<1> QED  BY <1>1, Cleared, Born DEF At, AuthInv

LEMMA SignUpKeeps ==
    ASSUME Serial, AuthInv, NEW s \in Slots, SignUp(s)
    PROVE  AuthInv'
<1>1. Alone(s) /\ AllClear
  BY BeginsClear DEF SignUp, Begins
<1>2. TypeInv' /\ Keeps(s) /\ HandlerOK(s)' /\ ident'.status = "pending"
  BY SignUpType, DoneIsOK DEF AuthInv
<1>3. UNCHANGED <<sess, links, factors, codes, hist>> /\ \A x \in Sessions : ~Live(x)
  BY DEF SignUp, AuthInv, Kept, Unborn
<1>4. UpToDate' /\ SignedOut'
  BY <1>2, <1>3 DEF UpToDate, SignedOut, IsLeaving, Live
<1>5. Tokens' /\ Challenged' /\ Recoverable'
  BY <1>1, <1>3, Rests, SteadyTokens, SteadyLinks, SteadyCodes DEF AllClear
<1>6. Unborn'
  BY <1>2 DEF Unborn
<1> QED  BY <1>1, <1>2, <1>4, <1>5, <1>6, Together DEF Kept

LEMMA AskKeeps ==
    ASSUME Serial, AuthInv, NEW s \in Slots, NEW op \in {"resend", "forgot"}, AskForLink(s, op)
    PROVE  AuthInv'
<1>1. Alone(s) /\ AllClear
  BY BeginsClear DEF AskForLink, Begins
<1>2. TypeInv' /\ Keeps(s) /\ HandlerOK(s)'
  BY AskType, DoneIsOK DEF AuthInv
<1>3. Kept'
  BY <1>1, Same DEF AskForLink
<1> QED  BY <1>1, <1>2, <1>3, Together

LEMMA InvalidateKeeps ==
    ASSUME Serial, AuthInv, NEW s \in Slots, Invalidate(s)
    PROVE  AuthInv'
<1>1. Alone(s) /\ AllClear /\ ident.status # "absent"
  BY WorkClear DEF Invalidate, At
<1>2. TypeInv' /\ Keeps(s) /\ HandlerOK(s)' /\ Ageing
  BY InvalidateType, DoneIsOK DEF AuthInv, Ageing
<1>3. Kept'
  BY <1>1, <1>2, Rests, Steady DEF Invalidate
<1> QED  BY <1>1, <1>2, <1>3, Together

LEMMA CreateLinkKeeps ==
    ASSUME Serial, AuthInv, NEW s \in Slots, NEW l \in Links, CreateLink(s, l)
    PROVE  AuthInv'
<1>1. Alone(s) /\ AllClear /\ ident.status # "absent"
  BY WorkClear DEF CreateLink, At
<1>2. TypeInv' /\ Keeps(s) /\ HandlerOK(s)' /\ Ageing
  BY CreateLinkType, DoneIsOK DEF AuthInv, Ageing
<1>3. Kept'
  BY <1>1, <1>2, Rests, Steady DEF CreateLink
<1> QED  BY <1>1, <1>2, <1>3, Together

LEMMA PresentKeeps ==
    ASSUME Serial, AuthInv, NEW s \in Slots, NEW op \in {"verify", "reset", "mfa"}, NEW l \in Links,
           Present(s, op, l)
    PROVE  AuthInv'
<1>1. Alone(s) /\ AllClear
  BY BeginsClear DEF Present, Begins
<1>2. /\ TypeInv' /\ Keeps(s) /\ req'[s].op = op /\ req'[s].link = l
      /\ req'[s].step = IF op = "mfa" THEN "factor" ELSE "spend"
  BY PresentType DEF AuthInv
<1>3. /\ UNCHANGED <<ident, sess, links, factors, codes, hist>> /\ links[l].opened = 0
      /\ ident.status # "absent" /\ (op = "mfa" => CanLogIn(ident))
  BY DEF Present, AuthInv, Kept, Challenged, Unborn
<1>4. HandlerOK(s)'
  BY <1>2, <1>3 DEF HandlerOK, At, Unopened
<1>5. Kept'
  BY <1>1, <1>3, Same
<1> QED  BY <1>1, <1>2, <1>4, <1>5, Together

LEMMA SpendLinkKeeps ==
    ASSUME Serial, AuthInv, NEW s \in Slots, SpendLink(s)
    PROVE  AuthInv'
<1>1. Alone(s) /\ AllClear /\ ident.status # "absent" /\ HandlerOK(s)
  BY WorkClear DEF SpendLink, At
<1>2. /\ TypeInv' /\ Keeps(s) /\ req'[s].op = req[s].op /\ req'[s].link = req[s].link
      /\ req'[s].step = IF req[s].op = "mfa" THEN "session" ELSE "read"
      /\ \A l \in Links : /\ links'[l].opened = links[l].opened
                          /\ links'[l].ttl = IF l = req[s].link THEN 0 ELSE links[l].ttl
  BY SpendLinkType DEF AuthInv
<1>3. HandlerOK(s)'
  <2>1. CASE req[s].op = "mfa"
    <3>1. Unopened(s) /\ CanLogIn(ident) /\ ident' = ident
      BY <1>1, <2>1 DEF HandlerOK, SpendLink
    <3>2. Unopened(s)' /\ ~Usable(req[s].link)'
      BY <1>2, <3>1 DEF Unopened, Usable
    <3> QED  BY <1>2, <2>1, <3>1, <3>2 DEF HandlerOK, At, Usable
  <2>2. CASE req[s].op # "mfa"
    BY <1>2, <2>2, DoneIsOK
  <2> QED  BY <2>1, <2>2
<1>4. Ageing
  BY <1>2 DEF Ageing
<1>5. Kept'
  BY <1>1, <1>4, Rests, Steady DEF SpendLink
<1> QED  BY <1>1, <1>2, <1>3, <1>5, Together

LEMMA LogInKeeps ==
    ASSUME Serial, AuthInv, NEW s \in Slots, NEW right \in BOOLEAN, LogIn(s, right)
    PROVE  AuthInv'
<1>1. Alone(s) /\ AllClear
  BY BeginsClear DEF LogIn, Begins
<1>2. /\ TypeInv' /\ Keeps(s)
      /\ req'[s].step = "save" /\ req'[s].op = "login" /\ req'[s].row = ident
  BY LogInType DEF AuthInv
<1>3. ident' = ident /\ ident.status \notin {"absent", "deleted"}
  BY DEF LogIn
<1>4. HandlerOK(s)'
  BY <1>2, <1>3 DEF HandlerOK, At
<1>5. Kept'
  BY <1>1, <1>3, Same DEF LogIn
<1> QED  BY <1>1, <1>2, <1>4, <1>5, Together

LEMMA ReadSteps ==
    ASSUME Serial, AuthInv, NEW s \in Slots,
           Read(s) \/ (\E op \in Guarded : ReadAgain(s, op)) \/ Due(s)
    PROVE  AuthInv'
<1>1. Alone(s) /\ AllClear /\ ident.status # "absent"
  <2>1. CASE Read(s)
    BY <2>1, WorkClear DEF Read, At
  <2>2. CASE \E op \in Guarded : ReadAgain(s, op)
    BY <2>2, BeginsClear, Born DEF ReadAgain, Admitted, At
  <2>3. CASE Due(s)
    BY <2>3, BeginsClear DEF Due, Begins
  <2> QED  BY <2>1, <2>2, <2>3
<1>2. /\ TypeInv' /\ Keeps(s)
      /\ \/ /\ req'[s].step = "save" /\ req'[s].row = ident
            /\ req'[s].op = "login" => ident.status # "deleted"
         \/ req'[s].step = "idle"
  <2>1. CASE Read(s)
    BY <2>1, ReadType DEF AuthInv
  <2>2. CASE \E op \in Guarded : ReadAgain(s, op)
    BY <2>2, ReadAgainType DEF AuthInv, Guarded
  <2>3. CASE Due(s)
    BY <2>3, DueType DEF AuthInv
  <2> QED  BY <2>1, <2>2, <2>3
<1>3. UNCHANGED <<ident, sess, links, factors, codes, hist>>
  BY DEF Read, ReadAgain, Due
<1>4. HandlerOK(s)'
  BY <1>2, <1>3 DEF HandlerOK, At
<1>5. Kept'
  BY <1>1, <1>3, Same
<1> QED  BY <1>1, <1>2, <1>4, <1>5, Together

\* Only what is asked of it makes an account leave, and no row is unmade.
LEMMA SavedStatus ==
    ASSUME Serial, AuthInv, NEW s \in Slots, Save(s)
    PROVE  /\ ident'.status # "absent"
           /\ req[s].op \in {"login", "verify"} => ident'.password = ident.password
           /\ req[s].op = "login" /\ req[s].right => CanLogIn(ident')
           /\ req[s].op \in {"login", "verify", "reset", "change"} =>
                (ident'.status \in {"pending_deletion", "deleted"} => IsLeaving)
<1>1. HandlerOK(s) /\ ident.status # "absent" /\ At(s, "save")
  BY WorkClear DEF Save, At
<1>2. req[s].row = ident /\ (req[s].op = "login" => ident.status # "deleted")
  BY <1>1 DEF HandlerOK
<1>3. /\ req[s] \in Requests /\ ident.status \in Statuses
      /\ req[s].op \in {"reset", "change"} => req[s].row.password < MaxPasswords
  BY <1>1 DEF AuthInv, TypeInv, TypeOK, Prepared, Identities
<1>4. ident' = Saved(req[s])
  BY DEF Save
<1> DEFINE op == req[s].op
<1>5. CASE op = "login"
  BY <1>1, <1>2, <1>3, <1>4, <1>5, SavedRow DEF CanLogIn, IsLeaving, Statuses
<1>6. CASE op \in {"verify", "reset", "change"}
  BY <1>1, <1>2, <1>3, <1>4, <1>6, SavedRow DEF IsLeaving
<1>7. CASE op \notin {"login", "verify", "reset", "change"}
  BY <1>3, <1>4, <1>7, SavedRow
<1> QED  BY <1>5, <1>6, <1>7

LEMMA SaveKeeps ==
    ASSUME Serial, AuthInv, NEW s \in Slots, Save(s)
    PROVE  AuthInv'
<1>1. Alone(s) /\ AllClear /\ ident.status # "absent"
  BY WorkClear DEF Save, At
<1> DEFINE op == req[s].op
<1>2. /\ TypeInv' /\ Keeps(s) /\ req'[s].step = AfterSave(req[s])
      /\ AfterSave(req[s]) # "idle" => req'[s].op = op /\ req'[s].sid = req[s].sid
      /\ op # "change" => UNCHANGED sess
      /\ \A x \in Sessions :
           /\ x # req[s].sid => sess'[x] = sess[x]
           /\ sess'[x].open = sess[x].open /\ sess'[x].gated = sess[x].gated
           /\ sess'[x].mfa = sess[x].mfa /\ sess'[x].cur = sess[x].cur
           /\ sess'[x].minted = sess[x].minted /\ sess'[x].spent = sess[x].spent
           /\ x = req[s].sid /\ op = "change" => sess'[x].epoch = ident'.password
  BY SaveType DEF AuthInv
<1>3. /\ ident'.status # "absent"
      /\ op \in {"login", "verify"} => ident'.password = ident.password
      /\ op = "login" /\ req[s].right => CanLogIn(ident')
      /\ op \in {"login", "verify", "reset", "change"} =>
           (ident'.status \in {"pending_deletion", "deleted"} => IsLeaving)
  BY SavedStatus
<1>4. UNCHANGED <<links, factors, codes, hist>>
  BY DEF Save
<1>5. HandlerOK(s)'
  <2>1. CASE op = "login" /\ req[s].right
    BY <1>2, <1>3, <2>1 DEF AfterSave, HandlerOK, At
  <2>2. CASE op = "change"
    BY <1>2, <2>2 DEF AfterSave, HandlerOK, At
  <2>3. CASE ~(op = "login" /\ req[s].right) /\ op # "change"
    BY <1>2, <2>3, DoneIsOK DEF AfterSave
  <2> QED  BY <2>1, <2>2, <2>3
<1>6. UpToDate' /\ SignedOut'
  <2>1. CASE op \in {"login", "verify"}
    <3>1. UNCHANGED sess
      BY <1>2, <2>1
    <3> QED  BY <1>1, <1>3, <1>4, <2>1, <3>1, Rests, SteadySessions DEF AllClear
  <2>2. CASE op = "change"
    <3>1. At(s, "list")' /\ req'[s].sid = req[s].sid
      BY <1>2, <2>2 DEF AfterSave, At
    <3>2. UpToDate'
      BY <1>2, <2>2, <3>1 DEF UpToDate, Ends
    <3>3. SignedOut'
      BY <1>1, <1>2, <1>3, <1>4, <2>2 DEF AllClear, AllOut, SignedOut, IsLeaving, Live
    <3> QED  BY <3>2, <3>3
  <2>3. CASE op \notin {"login", "verify", "change"}
    <3>1. At(s, "revoke")'
      BY <1>2, <2>3 DEF AfterSave, At
    <3> QED  BY <3>1 DEF UpToDate, SignedOut, Ends
  <2> QED  BY <2>1, <2>2, <2>3
<1>7. Tokens' /\ Recoverable'
  BY <1>1, <1>2, <1>4, Rests, SteadyTokens, SteadyCodes DEF AllClear, TokensRest
<1>8. Challenged'
  BY <1>2, <1>4 DEF AuthInv, Kept, Challenged, Live, Usable
<1>9. Unborn'
  BY <1>3 DEF Unborn
<1> QED  BY <1>1, <1>2, <1>5, <1>6, <1>7, <1>8, <1>9, Together DEF Kept

\* Admission is the one step of a request while another is at work.
LEMMA AdmitKeeps ==
    ASSUME Serial, AuthInv, NEW s \in Slots, NEW op \in Guarded, NEW x \in Sessions, Admit(s, op, x)
    PROVE  AuthInv'
<1>1. TypeInv' /\ Keeps(s) /\ req'[s].step = "admitted" /\ req[s].step = "idle"
  BY AdmitType DEF AuthInv, Admit
<1>2. /\ UNCHANGED <<ident, sess, links, factors, codes, hist>>
      /\ ident.status # "absent"
  BY BornAlive DEF Admit
<1>3. \A t \in Slots \ {s} : req'[t] = req[t]
  BY <1>1 DEF Keeps
<1>4. OneHandler'
  BY <1>1, <1>3 DEF AuthInv, OneHandler, InHandler
<1>5. ASSUME NEW t \in Slots PROVE HandlerOK(t)'
  <2>1. CASE t = s
    BY <1>1, <2>1, DoneIsOK
  <2>2. CASE t # s
    <3>1. HandlerOK(t) /\ req'[t] = req[t]
      BY <1>3, <2>2 DEF AuthInv
    <3> QED  BY <1>2, <3>1 DEF HandlerOK, At, Unopened, Usable, CanLogIn, Gated
  <2> QED  BY <2>1, <2>2
<1>6. \A t \in Slots, y \in Sessions :
        /\ Ends(t, y) => Ends(t, y)'
        /\ At(t, "revoke") => At(t, "revoke")'
        /\ At(t, "codes") /\ req[t].op = "confirm" => (At(t, "codes") /\ req[t].op = "confirm")'
  BY <1>1, <1>3 DEF Ends, At
<1>7. UpToDate' /\ SignedOut' /\ Tokens' /\ Challenged'
  BY <1>2, <1>6 DEF AuthInv, Kept, UpToDate, SignedOut, Tokens, Challenged, Live, Usable, IsLeaving
<1>8. Recoverable'
  <2>1. CASE \E t \in Slots : At(t, "codes") /\ req[t].op = "confirm"
    <3>1. PICK t \in Slots : At(t, "codes") /\ req[t].op = "confirm"
      BY <2>1
    <3>2. t # s
      BY <1>1, <3>1 DEF At
    <3> QED  BY <1>3, <3>1, <3>2 DEF Recoverable, At
  <2>2. CASE ~\E t \in Slots : At(t, "codes") /\ req[t].op = "confirm"
    BY <1>2, <2>2 DEF AuthInv, Kept, Recoverable, Gated
  <2> QED  BY <2>1, <2>2
<1>9. Unborn'
  BY <1>2 DEF Unborn
<1> QED  BY <1>1, <1>4, <1>5, <1>7, <1>8, <1>9 DEF AuthInv, Kept

LEMMA StartSessionKeeps ==
    ASSUME Serial, AuthInv, NEW s \in Slots, NEW x \in Sessions, NEW d \in Devices,
           StartSession(s, x, d)
    PROVE  AuthInv'
<1>1. Alone(s) /\ AllClear /\ ident.status # "absent" /\ HandlerOK(s)
  BY WorkClear DEF StartSession, BeginsSession, At
<1>2. /\ TypeInv' /\ Keeps(s) /\ HandlerOK(s)'
      /\ UNCHANGED <<sess, links>> \/ Begun(s, x)
  BY StartSessionType, DoneIsOK DEF AuthInv
<1>3. UNCHANGED <<ident, factors, codes, hist>>
  BY DEF StartSession
<1>4. CASE UNCHANGED <<sess, links>>
  <2>1. Kept'
    BY <1>1, <1>3, <1>4, Same
  <2> QED  BY <1>1, <1>2, <2>1, Together
<1>5. CASE Begun(s, x)
  <2>1. /\ CanLogIn(ident)
        /\ \/ Unopened(s) /\ ~Usable(req[s].link)
           \/ req[s].op = "login" /\ ~Gated
    BY <1>1 DEF StartSession, BeginsSession, HandlerOK
  <2>2. UpToDate'
    BY <1>1, <1>3, <1>5 DEF AllClear, AllCurrent, UpToDate, Begun, Live
  <2>3. SignedOut'
    BY <1>3, <2>1 DEF SignedOut, IsLeaving, CanLogIn
  <2>4. Tokens'
    BY <1>3, <1>5 DEF AuthInv, Kept, Tokens, TokensOK, Begun
  <2>5. \A y \in Sessions : Live(y)' /\ sess'[y].gated => sess'[y].mfa
    BY <1>5, <2>1 DEF AuthInv, Kept, Challenged, Begun, Unopened, Live
  <2>6. \A l \in Links : links'[l].opened <= 1 /\ (Usable(l)' => links'[l].opened = 0)
    BY <1>5, <2>1 DEF AuthInv, Kept, Challenged, Begun, Unopened, Usable
  <2>7. Recoverable' /\ Unborn'
    BY <1>1, <1>3, Rests, SteadyCodes DEF AllClear, Unborn
  <2>8. Kept'
    BY <2>2, <2>3, <2>4, <2>5, <2>6, <2>7 DEF Kept, Challenged
  <2> QED  BY <1>1, <1>2, <2>8, Together
<1> QED  BY <1>2, <1>4, <1>5

LEMMA RefreshKeeps ==
    ASSUME Serial, AuthInv, NEW s \in Slots, NEW x \in Sessions, NEW t \in 1..MaxTokens,
           Refresh(s, x, t)
    PROVE  AuthInv'
<1>1. Alone(s) /\ AllClear
  BY BeginsClear DEF Refresh, Begins
<1>2. /\ TypeInv' /\ Keeps(s)
      /\ \/ req'[s].step = "revoke"
         \/ /\ req'[s].step = "rotate" /\ req'[s].sid = x /\ req'[s].copy = sess[x]
            /\ CanLogIn(ident)
      /\ hist'.keptOpen = hist.keptOpen /\ hist'.uncoded = hist.uncoded
      /\ hist'.doubled = (hist.doubled \/ (~Reused(sess[x], t) /\ t \in sess[x].spent))
  BY RefreshType DEF AuthInv
<1>3. UNCHANGED <<ident, sess, links, factors, codes>> /\ ident.status # "absent"
  BY BornAlive DEF Refresh
<1>4. ~(~Reused(sess[x], t) /\ t \in sess[x].spent)
  BY DEF Refresh, Reused, AuthInv, Kept, Tokens, TokensOK
<1>5. HistRests
  <2>1. hist.doubled = FALSE
    BY Recalled DEF AuthInv, Kept, Tokens
  <2> QED  BY <1>2, <1>4, <2>1 DEF HistRests
<1>6. HandlerOK(s)'
  BY <1>2, <1>3 DEF HandlerOK, At
<1>7. Kept'
  <2>1. CodesRest
    BY <1>3, <1>5 DEF CodesRest, HistRests
  <2> QED  BY <1>1, <1>3, <1>5, <2>1, Rests, Steady
<1> QED  BY <1>1, <1>2, <1>6, <1>7, Together

LEMMA RotateKeeps ==
    ASSUME Serial, AuthInv, NEW s \in Slots, Rotate(s)
    PROVE  AuthInv'
<1>1. Alone(s) /\ AllClear /\ ident.status # "absent" /\ HandlerOK(s) /\ At(s, "rotate")
  BY WorkClear DEF Rotate, At
<1>2. /\ TypeInv' /\ Keeps(s) /\ HandlerOK(s)'
      /\ \A x \in Sessions : IF x = req[s].sid THEN Rotated(s, x) ELSE sess'[x] = sess[x]
      /\ hist'.keptOpen = hist.keptOpen /\ hist'.uncoded = hist.uncoded
      /\ hist'.doubled = (hist.doubled \/ req[s].copy.cur \in sess[req[s].sid].spent)
  BY RotateType, DoneIsOK DEF AuthInv
<1>3. /\ req[s].sid \in Sessions /\ req[s].copy = sess[req[s].sid]
  BY <1>1 DEF HandlerOK
<1>4. UNCHANGED <<ident, links, factors, codes>>
  BY DEF Rotate
<1>5. HistRests
  <2>1. hist.doubled = FALSE
    BY Recalled DEF AuthInv, Kept, Tokens
  <2>2. req[s].copy.cur \notin sess[req[s].sid].spent
    BY <1>3 DEF AuthInv, Kept, Tokens, TokensOK
  <2> QED  BY <1>2, <2>1, <2>2 DEF HistRests
<1>6. Fading
  BY <1>2, <1>3 DEF Fading, Rotated, Live
<1>7. Tokens'
  <2>1. ASSUME NEW x \in Sessions PROVE TokensOK(sess[x])' /\ TokensOK(sess[x])
    <3>1. /\ TokensOK(sess[x]) /\ sess[x].minted \in Nat /\ sess[x].cur \in Nat
          /\ sess[x].spent \subseteq Nat
      <4>1. sess[x] \in SessionRows
        BY DEF AuthInv, TypeInv, TypeOK
      <4>2. sess[x].minted \in 0..MaxTokens /\ sess[x].cur \in 0..MaxTokens
            /\ sess[x].spent \in SUBSET (1..MaxTokens)
        BY <4>1 DEF SessionRows
      <4> QED  BY <4>2, BoundsAssumption DEF AuthInv, Kept, Tokens
    <3>2. CASE x = req[s].sid
      <4>1. /\ sess'[x].cur = sess[x].minted + 1 /\ sess'[x].minted = sess[x].minted + 1
            /\ sess'[x].spent = sess[x].spent \union {sess[x].cur}
        BY <1>2, <1>3, <3>2 DEF Rotated
      <4> QED  BY <3>1, <4>1 DEF TokensOK
    <3>3. CASE x # req[s].sid
      BY <1>2, <3>1, <3>3
    <3> QED  BY <3>2, <3>3
  <2> QED  BY <1>5, <2>1 DEF Tokens, HistRests, AuthInv, Kept
<1>8. UpToDate' /\ SignedOut' /\ Challenged' /\ Recoverable' /\ Unborn'
  <2>1. CodesRest
    BY <1>4, <1>5 DEF CodesRest, HistRests
  <2> QED  BY <1>1, <1>4, <1>5, <1>6, <2>1, Rests, SteadySessions, SteadyLinks, SteadyCodes
             DEF AllClear, HistRests, Unborn, IsLeaving
<1> QED  BY <1>1, <1>2, <1>7, <1>8, Together DEF Kept

LEMMA LogOutKeeps ==
    ASSUME Serial, AuthInv, NEW s \in Slots, NEW x \in Sessions, LogOut(s, x)
    PROVE  AuthInv'
<1>1. Alone(s) /\ AllClear
  BY BeginsClear DEF LogOut, Begins
<1>2. /\ TypeInv' /\ Keeps(s) /\ req' = req
      /\ \A y \in Sessions : sess'[y] = sess[y] \/ Shut(sess'[y], sess[y])
  BY LogOutType DEF AuthInv
<1>3. HandlerOK(s)'
  BY <1>2, DoneIsOK DEF LogOut, Begins
<1>4. Fading /\ TokensRest
  BY <1>2 DEF Fading, TokensRest, Shut, Live
<1>5. Kept'
  BY <1>1, <1>4, BornAlive, Rests, Steady DEF LogOut
<1> QED  BY <1>1, <1>2, <1>3, <1>5, Together

LEMMA RevokeAllKeeps ==
    ASSUME Serial, AuthInv, NEW s \in Slots, RevokeAll(s)
    PROVE  AuthInv'
<1>1. Alone(s) /\ ident.status # "absent" /\ ~At(s, "codes")
  BY RestIsAlone, Born DEF RevokeAll, Admitted, At, InHandler
<1>2. TypeInv' /\ Keeps(s) /\ HandlerOK(s)' /\ \A x \in Sessions : Shut(sess'[x], sess[x])
  BY RevokeAllType, DoneIsOK DEF AuthInv
<1>3. UNCHANGED <<ident, links, factors, codes, hist>> /\ \A x \in Sessions : ~Live(x)'
  BY <1>2 DEF RevokeAll, Shut, Live
<1>4. AllCoded
  BY <1>1, Owed DEF AllCoded
<1>5. UpToDate' /\ SignedOut'
  BY <1>3 DEF UpToDate, SignedOut
<1>6. Fading /\ TokensRest
  BY <1>2, <1>3 DEF Fading, TokensRest, Shut
<1>7. Tokens' /\ Challenged' /\ Recoverable' /\ Unborn'
  BY <1>1, <1>3, <1>4, <1>6, Rests, SteadyTokens, SteadyLinks, SteadyCodes DEF Unborn
<1> QED  BY <1>1, <1>2, <1>5, <1>7, Together DEF Kept

LEMMA ListKeepsAll ==
    ASSUME Serial, AuthInv, NEW s \in Slots, NEW d \in Devices, List(s, d)
    PROVE  AuthInv'
<1>1. /\ Alone(s) /\ ident.status # "absent" /\ ~At(s, "codes") /\ ~At(s, "revoke")
      /\ HandlerOK(s)
  BY RestIsAlone, Born DEF List, Admitted, At, InHandler, AuthInv
<1>2. /\ TypeInv' /\ Keeps(s)
      /\ \/ /\ req'[s].step = "revoke_one" /\ req'[s].op = req[s].op
            /\ req[s].op = "change" =>
                 req'[s].todo = {x \in Sessions : Live(x)} \ {req[s].sid}
         \/ /\ req'[s].step = "idle"
            /\ req[s].op = "change" => \A x \in Sessions : Live(x) => x = req[s].sid
  BY ListType DEF AuthInv
<1>3. HandlerOK(s)'
  BY <1>2, DoneIsOK
<1>4. UNCHANGED <<ident, sess, links, factors, codes, hist>>
  BY DEF List
<1>5. AllOut /\ AllCoded
  BY <1>1, Owed DEF AllOut, AllCoded
<1>6. UpToDate'
  <2>1. ASSUME NEW x \in Sessions, Live(x), sess[x].epoch # ident.password, ~hist.keptOpen
        PROVE  Ends(s, x)'
    <3>1. At(s, "list") /\ req[s].sid # x
      BY <1>1, <2>1, Owed DEF Ends, List, Admitted, At
    <3>2. req[s].op = "change"
      BY <1>1, <3>1 DEF HandlerOK
    <3> QED  BY <1>2, <2>1, <3>1, <3>2 DEF Ends, At
  <2> QED  BY <1>4, <2>1 DEF UpToDate, Live
<1>7. SignedOut'
  BY <1>4, <1>5 DEF AllOut, SignedOut, IsLeaving, Live
<1>8. Tokens' /\ Challenged' /\ Recoverable' /\ Unborn'
  BY <1>1, <1>4, <1>5, Rests, SteadyTokens, SteadyLinks, SteadyCodes DEF Unborn
<1> QED  BY <1>1, <1>2, <1>3, <1>6, <1>7, <1>8, Together DEF Kept

LEMMA RevokeOneKeeps ==
    ASSUME Serial, AuthInv, NEW s \in Slots, NEW x \in Sessions, RevokeOne(s, x)
    PROVE  AuthInv'
<1>1. Alone(s) /\ ident.status # "absent" /\ At(s, "revoke_one")
  BY RestIsAlone, Born DEF RevokeOne, At, InHandler
<1>2. /\ TypeInv' /\ Keeps(s)
      /\ \/ /\ req'[s].step = "revoke_one" /\ req'[s].op = req[s].op
            /\ req'[s].todo = req[s].todo \ {x}
         \/ req'[s].step = "idle" /\ req[s].todo = {x}
      /\ Shut(sess'[x], sess[x])
      /\ \A y \in Sessions \ {x} : sess'[y] = sess[y]
  BY RevokeOneType DEF AuthInv
<1>3. HandlerOK(s)'
  BY <1>2, DoneIsOK
<1>4. UNCHANGED <<ident, links, factors, codes, hist>>
  BY DEF RevokeOne
<1>5. AllOut /\ AllCoded
  BY <1>1, Owed DEF AllOut, AllCoded, At
<1>6. Fading /\ TokensRest
  BY <1>2 DEF Fading, TokensRest, Shut, Live
<1>7. UpToDate'
  <2>1. ASSUME NEW y \in Sessions, Live(y)', sess'[y].epoch # ident.password, ~hist.keptOpen
        PROVE  Ends(s, y)'
    <3>1. y # x
      BY <1>2, <2>1 DEF Shut, Live
    <3>2. Live(y) /\ sess[y].epoch # ident.password
      BY <1>2, <2>1, <3>1 DEF Live
    <3>3. Ends(s, y)
      BY <1>1, <2>1, <3>2, Owed
    <3>4. req[s].op = "change" /\ y \in req[s].todo
      BY <1>1, <3>3 DEF Ends, At
    <3> QED  BY <1>2, <3>1, <3>4 DEF Ends, At
  <2> QED  BY <1>4, <2>1 DEF UpToDate
<1>8. SignedOut'
  BY <1>4, <1>5, <1>6 DEF AllOut, SignedOut, IsLeaving, Fading
<1>9. Tokens' /\ Challenged' /\ Recoverable' /\ Unborn'
  BY <1>1, <1>4, <1>5, <1>6, Rests, SteadyTokens, SteadyLinks, SteadyCodes DEF Unborn
<1> QED  BY <1>1, <1>2, <1>3, <1>7, <1>8, <1>9, Together DEF Kept

LEMMA DisableSteps ==
    ASSUME Serial, AuthInv, NEW s \in Slots,
           Enrol(s) \/ CreateFactor(s) \/ Disable(s) \/ Drop(s) \/ Regenerate(s)
    PROVE  AuthInv'
<1>1. Alone(s) /\ AllClear /\ ident.status # "absent"
  <2>1. CASE CreateFactor(s) \/ Drop(s)
    BY <2>1, WorkClear DEF CreateFactor, Drop, At
  <2>2. CASE Enrol(s) \/ Disable(s) \/ Regenerate(s)
    BY <2>2, BeginsClear, Born DEF Enrol, Disable, Regenerate, Admitted, At
  <2> QED  BY <2>1, <2>2
<1>2. TypeInv' /\ Keeps(s) /\ HandlerOK(s)' /\ NoMoreFactors
  <2>1. CASE Enrol(s)
    BY <2>1, EnrolType, DoneIsOK DEF AuthInv
  <2>2. CASE CreateFactor(s)
    BY <2>2, CreateFactorType, DoneIsOK DEF AuthInv
  <2>3. CASE Disable(s)
    BY <2>3, DisableType, Rests DEF AuthInv, Disable, HandlerOK, At
  <2>4. CASE Drop(s)
    <3>1. HandlerOK(s) /\ At(s, "drop")
      BY <2>4 DEF Drop, AuthInv
    <3> QED  BY <2>4, <3>1, DropType DEF AuthInv, HandlerOK, At
  <2>5. CASE Regenerate(s)
    BY <2>5, RegenerateType, Rests DEF AuthInv, Regenerate, HandlerOK, At
  <2> QED  BY <2>1, <2>2, <2>3, <2>4, <2>5
<1>3. UNCHANGED <<ident, sess, links, codes, hist>>
  BY DEF Enrol, CreateFactor, Disable, Drop, Regenerate
<1>4. Kept'
  BY <1>1, <1>2, <1>3, Rests, Steady
<1> QED  BY <1>1, <1>2, <1>4, Together

LEMMA ConfirmKeeps ==
    ASSUME Serial, AuthInv, NEW s \in Slots, NEW f \in Factors, Confirm(s, f)
    PROVE  AuthInv'
<1>1. Alone(s) /\ AllClear /\ ident.status # "absent"
  BY BeginsClear, Born DEF Confirm, Admitted, At
<1>2. TypeInv' /\ Keeps(s) /\ req'[s].step = "codes" /\ req'[s].op = "confirm"
  BY ConfirmType DEF AuthInv
<1>3. HandlerOK(s)' /\ Recoverable'
  BY <1>2 DEF HandlerOK, At, Recoverable
<1>4. UNCHANGED <<ident, sess, links, codes, hist>>
  BY DEF Confirm
<1>5. UpToDate' /\ SignedOut' /\ Tokens' /\ Challenged' /\ Unborn'
  BY <1>1, <1>4, Rests, SteadySessions, SteadyTokens, SteadyLinks DEF AllClear, Unborn, IsLeaving
<1> QED  BY <1>1, <1>2, <1>3, <1>5, Together DEF Kept

LEMMA ReplaceCodesKeeps ==
    ASSUME Serial, AuthInv, NEW s \in Slots, ReplaceCodes(s)
    PROVE  AuthInv'
<1>1. Alone(s) /\ ident.status # "absent" /\ HandlerOK(s) /\ At(s, "codes")
  BY RestIsAlone, Born DEF ReplaceCodes, At, InHandler, AuthInv
<1>2. /\ TypeInv' /\ Keeps(s) /\ HandlerOK(s)'
      /\ req[s].op # "disable" => \A c \in Codes : codes'[c] # "absent"
  BY ReplaceCodesType, DoneIsOK DEF AuthInv
<1>3. UNCHANGED <<ident, sess, links, factors, hist>>
  BY DEF ReplaceCodes
<1>4. AllCurrent /\ AllOut
  BY <1>1, Owed DEF AllCurrent, AllOut, Ends, At
<1>5. UpToDate' /\ SignedOut' /\ Tokens' /\ Challenged' /\ Unborn'
  BY <1>1, <1>3, <1>4, Rests, SteadySessions, SteadyTokens, SteadyLinks DEF Unborn, IsLeaving
<1>6. Recoverable'
  <2>1. CASE req[s].op = "disable"
    BY <1>1, <1>3, <2>1 DEF HandlerOK, Recoverable, Gated
  <2>2. CASE req[s].op # "disable"
    BY <1>2, <2>2 DEF Recoverable
  <2> QED  BY <2>1, <2>2
<1> QED  BY <1>1, <1>2, <1>5, <1>6, Together DEF Kept

LEMMA FactorKeeps ==
    ASSUME Serial, AuthInv, NEW s \in Slots, Factor(s)
    PROVE  AuthInv'
<1>1. Alone(s) /\ AllClear /\ ident.status # "absent" /\ HandlerOK(s) /\ At(s, "factor")
  BY WorkClear DEF Factor, At
<1>2. /\ TypeInv' /\ Keeps(s)
      /\ \/ req'[s].step = "spend" /\ req'[s].op = req[s].op /\ req'[s].link = req[s].link
         \/ req'[s].step = "idle"
      /\ \A c \in Codes : codes[c] # "absent" => codes'[c] # "absent"
  BY FactorType DEF AuthInv
<1>3. UNCHANGED <<ident, sess, links, factors, hist>>
  BY DEF Factor
<1>4. HandlerOK(s)'
  <2>1. Unopened(s) /\ CanLogIn(ident)
    BY <1>1 DEF HandlerOK
  <2> QED  BY <1>2, <1>3, <2>1 DEF HandlerOK, At, Unopened
<1>5. CodesRest
  BY <1>2, <1>3 DEF CodesRest
<1>6. Kept'
  BY <1>1, <1>3, <1>5, Rests, Steady
<1> QED  BY <1>1, <1>2, <1>4, <1>6, Together

LEMMA AbortKeeps ==
    ASSUME Serial, AuthInv, NEW s \in Slots, Abort(s)
    PROVE  AuthInv'
<1>1. Alone(s) /\ ident.status # "absent"
  BY RestIsAlone, Born DEF Abort, InHandler, At
<1>2. /\ TypeInv' /\ Keeps(s) /\ HandlerOK(s)'
      /\ hist'.doubled = hist.doubled
      /\ hist'.keptOpen = (hist.keptOpen \/ Ending(s))
      /\ hist'.uncoded = (hist.uncoded \/ (At(s, "codes") /\ req[s].op = "confirm"))
  BY AbortType, DoneIsOK DEF AuthInv
<1>3. UNCHANGED <<ident, sess, links, factors, codes>>
  BY DEF Abort
<1>4. \A x \in Sessions : Ends(s, x) => Ending(s)
  BY DEF Ends, Ending
<1>5. UpToDate'
  BY <1>1, <1>2, <1>3, <1>4, Owed DEF UpToDate, Live
<1>6. SignedOut'
  BY <1>1, <1>2, <1>3, Owed DEF SignedOut, IsLeaving, Live, Ending
<1>7. Recoverable'
  BY <1>1, <1>2, <1>3, Owed DEF Recoverable, Gated
<1>8. Tokens' /\ Challenged' /\ Unborn'
  BY <1>1, <1>2, <1>3, Rests, SteadyTokens, SteadyLinks DEF Unborn
<1> QED  BY <1>1, <1>2, <1>5, <1>6, <1>7, <1>8, Together DEF Kept

LEMMA TickKeeps ==
    ASSUME AuthInv, Tick
    PROVE  AuthInv'
<1>1. AllClear /\ \A s \in Slots : ~InHandler(s)
  BY ClearedAll DEF Tick
<1>2. /\ TypeInv' /\ req' = req
      /\ ident'.status = ident.status /\ ident'.password = ident.password
      /\ \A x \in Sessions : Shut(sess'[x], sess[x]) \/ Like(sess'[x], sess[x])
      /\ \A l \in Links : \/ links'[l].ttl = 0 /\ links'[l].opened = 0
                          \/ links'[l].opened = links[l].opened /\ links[l].ttl > 1
  BY TickType DEF AuthInv
<1>3. UNCHANGED <<factors, codes, hist>>
  BY DEF Tick
<1>4. /\ Fading /\ TokensRest /\ Ageing
      /\ \A x \in Sessions : (Live(x)' => Live(x)) /\ sess'[x].cur = sess[x].cur
                             /\ sess'[x].prev = sess[x].prev
  <2>1. \A l \in Links : links[l].ttl \in Nat
    BY DEF AuthInv, TypeInv, TypeOK
  <2>2. Ageing
    BY <1>2, <2>1 DEF Ageing
  <2> QED  BY <1>2, <2>2 DEF Fading, TokensRest, Shut, Like, Live
<1>5. UpToDate' /\ SignedOut' /\ Tokens' /\ Challenged' /\ Recoverable'
  BY <1>1, <1>2, <1>3, <1>4, Rests, SteadySessions, SteadyTokens, SteadyLinks, SteadyCodes
     DEF AllClear, IsLeaving
<1>6. Unborn'
  <2>1. ASSUME ident.status = "absent", NEW l \in Links PROVE ~Usable(l)'
    <3>1. ~(links[l].ttl > 0) /\ links[l].ttl \in Nat
      BY <2>1 DEF AuthInv, TypeInv, TypeOK, Kept, Unborn, Usable
    <3> QED  BY <1>2, <3>1 DEF Usable
  <2>2. ident.status = "absent" =>
            /\ \A s \in Slots : At(s, "idle")'
            /\ \A x \in Sessions : (~Live(x) /\ sess[x].cur = 0 /\ sess[x].prev = 0)'
    BY <1>2, <1>4 DEF AuthInv, Kept, Unborn, At
  <2> QED  BY <1>2, <2>1, <2>2 DEF Unborn
<1>7. OneHandler' /\ \A s \in Slots : HandlerOK(s)'
  <2>1. ASSUME NEW s \in Slots PROVE HandlerOK(s)' /\ ~InHandler(s)'
    BY <1>1, <1>2, DoneIsOK DEF InHandler
  <2> QED  BY <2>1 DEF OneHandler
<1> QED  BY <1>2, <1>5, <1>6, <1>7 DEF AuthInv, Kept

LEMMA AuthInit == Init => AuthInv
<1> SUFFICES ASSUME Init PROVE AuthInv
  OBVIOUS
<1>1. TypeInv /\ \A s \in Slots : req[s].step = "idle"
  BY TypeInit, IdleTyped DEF Init
<1>2. OneHandler /\ \A s \in Slots : HandlerOK(s)
  BY <1>1 DEF OneHandler, InHandler, HandlerOK, At
<1>3. /\ \A x \in Sessions : ~Live(x) /\ TokensOK(sess[x]) /\ sess[x].cur = 0 /\ sess[x].prev = 0
      /\ \A l \in Links : ~Usable(l) /\ links[l].opened = 0
      /\ ~Gated /\ ~hist.doubled /\ ident.status = "absent"
  BY IdleTyped DEF Init, Live, TokensOK, Usable, Gated, NoIdentity
<1> QED  BY <1>1, <1>2, <1>3 DEF AuthInv, Kept, UpToDate, SignedOut, Tokens, Challenged, Recoverable,
                                Unborn, At

LEMMA AuthStep ==
    ASSUME Serial, AuthInv, [Next]_vars
    PROVE  AuthInv'
<1>1. ASSUME NEW s \in Slots, LinkSteps(s) PROVE AuthInv'
  BY <1>1, SignUpKeeps, AskKeeps, InvalidateKeeps, CreateLinkKeeps, PresentKeeps, SpendLinkKeeps
     DEF LinkSteps
<1>2. ASSUME NEW s \in Slots, IdentitySteps(s) PROVE AuthInv'
  BY <1>2, LogInKeeps, ReadSteps, SaveKeeps DEF IdentitySteps
<1>3. ASSUME NEW s \in Slots, SessionSteps(s) PROVE AuthInv'
  BY <1>3, AdmitKeeps, StartSessionKeeps, RefreshKeeps, RotateKeeps, LogOutKeeps, RevokeAllKeeps,
     ListKeepsAll, RevokeOneKeeps DEF SessionSteps
<1>4. ASSUME NEW s \in Slots, FactorSteps(s) PROVE AuthInv'
  BY <1>4, DisableSteps, ConfirmKeeps, ReplaceCodesKeeps, FactorKeeps DEF FactorSteps
<1>5. CASE UNCHANGED vars
  <2>1. TypeInv'
    BY <1>5, TypeStep DEF AuthInv
  <2>2. OneHandler' /\ \A s \in Slots : HandlerOK(s)'
    BY <1>5 DEF vars, AuthInv, OneHandler, InHandler, HandlerOK, At, Unopened, Usable, Gated
  <2>3. Kept'
    BY <1>5 DEF vars, AuthInv, Kept, UpToDate, SignedOut, Tokens, Challenged, Recoverable, Unborn,
                Ends, At, Live, Usable, Gated, IsLeaving
  <2> QED  BY <2>1, <2>2, <2>3 DEF AuthInv
<1> QED  BY <1>1, <1>2, <1>3, <1>4, <1>5, AbortKeeps, TickKeeps DEF Next

\* With one API process no two handlers are ever at work together, what a
\* handler has read is still so when it saves, and the store keeps what each
\* handler promised, save what a request that was cut off left undone.
THEOREM OneProcess == ASSUME Serial PROVE Spec => []AuthInv
<1>1. AuthInv /\ [Next]_vars => AuthInv'
  BY AuthStep
<1> QED  BY <1>1, AuthInit, PTL DEF Spec

\* Setting a password puts the sessions of the old one behind it, however the
\* request overlaps with those that were admitted before it.
THEOREM OldPasswordsOut == ASSUME Serial PROVE Spec => []PasswordBehind
<1>1. AuthInv => PasswordBehind
  BY DEF AuthInv, Kept, UpToDate, PasswordBehind, Ends, Ending
<1> QED  BY <1>1, OneProcess, PTL

\* An account that is leaving, or gone, is signed in nowhere.
THEOREM LeaversOut == ASSUME Serial PROVE Spec => []LeavingIsSignedOut
<1>1. AuthInv => LeavingIsSignedOut
  BY DEF AuthInv, Kept, SignedOut, LeavingIsSignedOut, IsLeaving, Ending
<1> QED  BY <1>1, OneProcess, PTL

\* No refresh token is exchanged twice.
THEOREM SpentOnce == ASSUME Serial PROVE Spec => []TokenSpentOnce
<1>1. AuthInv => TokenSpentOnce
  BY DEF AuthInv, Kept, Tokens, TokenSpentOnce
<1> QED  BY <1>1, OneProcess, PTL

\* Nobody gets past the second factor, and a challenge opens one session.
THEOREM FactorAsked == ASSUME Serial PROVE Spec => []SecondFactorAsked
<1>1. AuthInv => SecondFactorAsked
  BY DEF AuthInv, Kept, Challenged, SecondFactorAsked
<1> QED  BY <1>1, OneProcess, PTL

\* Whoever has a second factor has recovery codes.
THEOREM CodesGiven == ASSUME Serial PROVE Spec => []WayBack
<1>1. AuthInv => WayBack
  BY DEF AuthInv, Kept, Recoverable, WayBack
<1> QED  BY <1>1, OneProcess, PTL
=============================================================================
