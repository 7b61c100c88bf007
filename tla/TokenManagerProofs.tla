------------------------- MODULE TokenManagerProofs -------------------------
(***************************************************************************)
(* For any number of calls in flight: Avito's current refresh token is in  *)
(* the row or about to get there, unless it was erased in the one way the  *)
(* code has; and a disconnect is final.                                    *)
(***************************************************************************)
EXTENDS TokenManager, TLAPS

(* No refresh token is newer than the one Avito issued last. *)
Issued ==
  /\ row.tokens.refresh <= generation
  /\ \A c \in Call : seen[c].refresh <= generation /\ got[c].refresh <= generation

(* Without an authorization code there is no refresh token: neither before *)
(* it was exchanged, nor for an account of the other grant, which never    *)
(* opens a flow.                                                           *)
FlowSteps == {"openFlow", "code", "bind", "closeFlow"}

CodeFirst ==
  /\ ~codeUsed => generation = 0
  /\ grant = "client_credentials" =>
       generation = 0 /\ flow = "none" /\ \A c \in Call : pc[c] \notin FlowSteps
  /\ \A c \in Call : pc[c] = "activate" => got[c].refresh = 0
  /\ \A c \in Call : pc[c] \in {"issue", "activate"} => grant = "client_credentials"

(* A call that has received Avito's current refresh token.                 *)
HoldsCurrent(c) == Holds(c) /\ got[c].refresh = generation /\ generation # 0

(* What a call is about to store is current, and if Avito rotates, nobody  *)
(* else knows it before it is stored.                                      *)
Current ==
  ~lost =>
    /\ \A c \in Call : Holds(c) => got[c].refresh \in {0, generation}
    /\ rotates => \A c \in Call : HoldsCurrent(c) =>
         /\ row.tokens.refresh # generation
         /\ \A d \in Call : seen[d].refresh # generation
         /\ \A d \in Call : HoldsCurrent(d) => d = c

(* The row is created once, by the one call that connects the account.     *)
CreatedOnce ==
  /\ account = "none" => row = NoRow /\ ~removed /\ \A c \in Call : pc[c] # "vault"
  /\ \A c \in Call : pc[c] = "vault" => row = NoRow /\ ~removed
  /\ \A c, d \in Call : pc[c] = "vault" /\ pc[d] = "vault" => c = d

(* Before there is a row there is nothing to call back for.                *)
RowFirst ==
  row = NoRow /\ ~removed =>
    /\ generation = 0 /\ flow # "open"
    /\ \A c \in Call : pc[c] \notin {"openFlow", "code", "bind"}

(* A refresh that is about to store no refresh token had read none, and a  *)
(* callback always has one.                                                *)
WhenceNone ==
  \A c \in Call :
    /\ pc[c] = "store" /\ got[c].refresh = 0 => seen[c].refresh = 0
    /\ pc[c] = "bind" => got[c].refresh # 0

IInv ==
  /\ TypeOK /\ Issued /\ CodeFirst /\ Current /\ CreatedOnce /\ RowFirst /\ WhenceNone
  /\ RefreshTokenKept /\ DisconnectIsFinal

-----------------------------------------------------------------------------
(* NoTokens and NoRow are values like the others. *)
LEMMA Nothing ==
  /\ NoTokens \in TokenSet /\ NoTokens.refresh = 0
  /\ NoRow.tokens = NoTokens /\ NoRow \notin VaultRow
<1>1. 0 \in 0..MaxGeneration /\ 0 \in 0..(MaxTime + Lifetime)
  BY TokenManagerAssumption
<1> QED
  BY <1>1 DEF NoTokens, TokenSet, NoRow, VaultRow, Status

LEMMA Numbers ==
  ASSUME TypeOK
  PROVE  /\ generation \in Nat /\ row.tokens \in TokenSet /\ row.tokens.refresh \in Nat
         /\ \A c \in Call : seen[c].refresh \in Nat /\ got[c].refresh \in Nat
<1>1. row.tokens \in TokenSet
  BY Nothing DEF TypeOK, VaultRow
<1>2. \A t \in TokenSet : t.refresh \in Nat
  BY TokenManagerAssumption DEF TokenSet
<1>3. \A c \in Call : seen[c] \in TokenSet /\ got[c] \in TokenSet
  BY DEF TypeOK
<1>4. generation \in Nat
  BY TokenManagerAssumption DEF TypeOK
<1> QED
  BY <1>1, <1>2, <1>3, <1>4

-----------------------------------------------------------------------------
(* A step after which the call holds no tokens: the row keeps its tokens,  *)
(* and the call's own are where they were, or dropped.  A call that held   *)
(* the current refresh token is then lost, or finds the row gone.          *)
LEMMA Elsewhere ==
  ASSUME IInv, NEW c \in Call, NEW p \in Pc \ {"vault", "issue", "activate", "store", "bind"},
         grant = "client_credentials" => p \notin FlowSteps,
         pc' = [pc EXCEPT ![c] = p],
         what' \in [Call -> What],
         seen' = seen \/ seen' = [seen EXCEPT ![c] = NoTokens],
         got' = got \/ got' = [got EXCEPT ![c] = NoTokens],
         UNCHANGED <<now, grant, removed, rotates, generation, codeUsed, erased>>,
         row = NoRow /\ ~removed => p \notin {"openFlow", "code"} /\ flow' # "open",
         \/ row' = row
         \/ row # NoRow /\ row' \in VaultRow /\ row'.tokens = row.tokens,
         account' \in {"none", "pending", "active", "error"},
         account' = "none" => account = "none",
         flow' \in {"none", "open", "closed"},
         grant = "client_credentials" => flow' = "none",
         streamRead' \subseteq Call, accountRead' \subseteq Call,
         lost' = lost \/ lost' = TRUE,
         HoldsCurrent(c) => lost' \/ row = NoRow
  PROVE  IInv'
<1>1. \A d \in Call : pc'[d] = IF d = c THEN p ELSE pc[d]
  BY DEF IInv, TypeOK
<1>2. \A d \in Call : /\ got'[d] = IF d = c THEN got'[c] ELSE got[d]
                      /\ seen'[d] = IF d = c THEN seen'[c] ELSE seen[d]
                      /\ got'[c] \in {got[c], NoTokens}
                      /\ seen'[c] \in {seen[c], NoTokens}
  BY DEF IInv, TypeOK
<1>3. row'.tokens = row.tokens
  OBVIOUS
<1>4. TypeOK'
  <2>1. pc' \in [Call -> Pc] /\ row' \in VaultRow \cup {NoRow} /\ lost' \in BOOLEAN
    BY DEF IInv, TypeOK
  <2>2. seen' \in [Call -> TokenSet] /\ got' \in [Call -> TokenSet]
    BY Nothing DEF IInv, TypeOK
  <2> QED
    BY <2>1, <2>2 DEF IInv, TypeOK
<1>5. Issued'
  BY <1>2, <1>3, Nothing, Numbers DEF IInv, Issued
<1>6. CodeFirst'
  <2>1. \A d \in Call : pc'[d] = "activate" => got'[d].refresh = 0
    BY <1>1, <1>2 DEF IInv, CodeFirst
  <2>2. grant = "client_credentials" => \A d \in Call : pc'[d] \notin FlowSteps
    BY <1>1 DEF IInv, CodeFirst
  <2> QED
    BY <2>1, <2>2 DEF IInv, CodeFirst
<1>7. \A d \in Call : Holds(d)' => Holds(d) /\ d # c /\ got'[d] = got[d]
  BY <1>1, <1>2 DEF Holds
<1>8. \A d \in Call : HoldsCurrent(d)' => HoldsCurrent(d)
  BY <1>7 DEF HoldsCurrent
<1>9. Current'
  <2> SUFFICES ASSUME ~lost'
               PROVE  /\ \A d \in Call : Holds(d)' => got'[d].refresh \in {0, generation}
                      /\ rotates => \A d \in Call : HoldsCurrent(d)' =>
                           /\ row'.tokens.refresh # generation
                           /\ \A x \in Call : seen'[x].refresh # generation
                           /\ \A x \in Call : HoldsCurrent(x)' => x = d
    BY DEF Current
  <2>1. ~lost
    OBVIOUS
  <2>2. \A d \in Call : Holds(d)' => got'[d].refresh \in {0, generation}
    BY <2>1, <1>7 DEF IInv, Current
  <2>3. \A d \in Call : HoldsCurrent(d)' => generation # 0
    BY DEF HoldsCurrent
  <2>4. \A x \in Call : seen'[x].refresh = seen[x].refresh \/ seen'[x].refresh = 0
    BY <1>2, Nothing
  <2> QED
    BY <2>1, <2>2, <2>3, <2>4, <1>3, <1>8 DEF IInv, Current
<1>10. CreatedOnce'
  <2>1. row = NoRow => row' = NoRow
    OBVIOUS
  <2>2. \A d \in Call : pc'[d] = "vault" => pc[d] = "vault"
    BY <1>1
  <2> QED
    BY <2>1, <2>2 DEF IInv, CreatedOnce
<1>11. RefreshTokenKept'
  <2> SUFFICES ASSUME generation # 0, row # NoRow, ~lost'
               PROVE  \/ row.tokens.refresh = generation
                      \/ \E d \in Call : Holds(d)' /\ got'[d].refresh = generation
                      \/ erased /\ row.tokens.refresh = 0
    BY <1>3 DEF RefreshTokenKept
  <2>1. ~lost
    OBVIOUS
  <2>2. ASSUME NEW d \in Call, Holds(d), got[d].refresh = generation
        PROVE  Holds(d)' /\ got'[d].refresh = generation
    <3>1. d # c
      BY <2>1, <2>2 DEF HoldsCurrent
    <3> QED
      BY <2>2, <3>1, <1>1, <1>2 DEF Holds
  <2> QED
    BY <2>1, <2>2 DEF IInv, RefreshTokenKept
<1>12. DisconnectIsFinal'
  BY DEF IInv, DisconnectIsFinal
<1>13. RowFirst'
  <2>1. row = NoRow <=> row' = NoRow
    BY Nothing
  <2> QED
    BY <2>1, <1>1 DEF IInv, RowFirst
<1>14. WhenceNone'
  BY <1>1, <1>2, <1>7 DEF IInv, WhenceNone, Holds
<1> QED
  BY <1>4, <1>5, <1>6, <1>9, <1>10, <1>11, <1>12, <1>13, <1>14 DEF IInv

(* The tokens a call received go into the row. *)
LEMMA Stores ==
  ASSUME IInv, NEW c \in Call, pc[c] \in {"store", "bind", "activate"},
         NEW p \in Pc \ ({"vault", "issue", "activate", "store", "bind"} \cup FlowSteps),
         UpdateTokens(got[c]),
         pc' = [pc EXCEPT ![c] = p],
         got' = [got EXCEPT ![c] = NoTokens],
         what' \in [Call -> What],
         UNCHANGED <<now, grant, removed, account, flow, seen, streams>>,
         UNCHANGED <<rotates, generation, codeUsed, lost>>,
         erased' = (erased \/ (pc[c] = "store" /\ seen[c].refresh = 0 /\ row.tokens.refresh # 0))
  PROVE  IInv'
<1>0. /\ UNCHANGED <<streamRead, accountRead>>
      /\ row # NoRow /\ row' = [status |-> "connected", tokens |-> got[c]]
      /\ erased' \in BOOLEAN
  BY DEF streams, UpdateTokens, IInv, TypeOK
<1>1. \A d \in Call : /\ pc'[d] = IF d = c THEN p ELSE pc[d]
                      /\ got'[d] = IF d = c THEN NoTokens ELSE got[d]
  BY DEF IInv, TypeOK
<1>2. row'.tokens = got[c] /\ got[c] \in TokenSet
  BY <1>0 DEF IInv, TypeOK
<1>3. \A d \in Call : Holds(d)' => Holds(d) /\ d # c /\ got'[d] = got[d]
  BY <1>1 DEF Holds
<1>4. TypeOK'
  <2>1. row' \in VaultRow
    BY <1>0, <1>2 DEF VaultRow, Status
  <2>2. pc' \in [Call -> Pc] /\ got' \in [Call -> TokenSet]
    BY Nothing DEF IInv, TypeOK
  <2> QED
    BY <2>1, <2>2, <1>0 DEF IInv, TypeOK
<1>5. Issued'
  BY <1>0, <1>1, <1>2, Nothing, Numbers DEF IInv, Issued
<1>6. CodeFirst'
  BY <1>0, <1>1 DEF IInv, CodeFirst
<1>7. ~lost => got[c].refresh \in {0, generation}
  BY DEF IInv, Current, CodeFirst, Holds
<1>8. Current'
  <2> SUFFICES ASSUME ~lost
               PROVE  /\ \A d \in Call : Holds(d)' => got'[d].refresh \in {0, generation}
                      /\ rotates => \A d \in Call : HoldsCurrent(d)' =>
                           /\ row'.tokens.refresh # generation
                           /\ \A x \in Call : seen[x].refresh # generation
                           /\ \A x \in Call : HoldsCurrent(x)' => x = d
    BY <1>0 DEF Current
  <2>1. \A d \in Call : Holds(d)' => got'[d].refresh \in {0, generation}
    BY <1>3 DEF IInv, Current
  <2>2. \A d \in Call : HoldsCurrent(d)' => HoldsCurrent(d) /\ d # c
    BY <1>0, <1>3 DEF HoldsCurrent
  <2>3. ASSUME rotates, NEW d \in Call, HoldsCurrent(d)'
        PROVE  row'.tokens.refresh # generation
    <3>1. HoldsCurrent(d) /\ d # c /\ generation # 0
      BY <2>2, <2>3 DEF HoldsCurrent
    <3>2. ~HoldsCurrent(c)
      BY <3>1, <2>3 DEF IInv, Current
    <3>3. pc[c] = "activate" => got[c].refresh = 0
      BY DEF IInv, CodeFirst
    <3> QED
      BY <3>1, <3>2, <3>3, <1>2 DEF HoldsCurrent, Holds
  <2> QED
    BY <2>1, <2>2, <2>3 DEF IInv, Current
<1>9. CreatedOnce'
  BY <1>0, <1>1 DEF IInv, CreatedOnce
<1>10. RefreshTokenKept'
  <2> SUFFICES ASSUME generation # 0, ~lost, got[c].refresh # generation
               PROVE  \/ \E d \in Call : Holds(d)' /\ got'[d].refresh = generation
                      \/ erased' /\ got[c].refresh = 0
    BY <1>0, <1>2 DEF RefreshTokenKept
  <2>1. got[c].refresh = 0
    BY <1>7
  <2>2. pc[c] = "store" /\ seen[c].refresh = 0
    BY <2>1, Numbers DEF IInv, CodeFirst, WhenceNone, RowFirst, FlowSteps
  <2>3. CASE row.tokens.refresh # 0
    BY <2>1, <2>2, <2>3
  <2>4. CASE row.tokens.refresh = 0
    <3>1. \A d \in Call : Holds(d) /\ got[d].refresh = generation =>
            Holds(d)' /\ got'[d].refresh = generation
      BY <1>1 DEF Holds
    <3> QED
      BY <2>1, <2>4, <3>1, <1>0 DEF IInv, RefreshTokenKept
  <2> QED
    BY <2>3, <2>4
<1>11. DisconnectIsFinal'
  BY <1>0 DEF IInv, DisconnectIsFinal
<1>12. RowFirst' /\ WhenceNone'
  <2>1. row' # NoRow
    BY <1>4, <1>0 DEF NoRow
  <2> QED
    BY <2>1, <1>1 DEF IInv, RowFirst, WhenceNone
<1> QED
  BY <1>4, <1>5, <1>6, <1>8, <1>9, <1>10, <1>11, <1>12 DEF IInv

(* Avito answers with tokens: without a refresh token, with the one it     *)
(* keeps, or with a new one.                                               *)
LEMMA Receives ==
  ASSUME IInv, NEW c \in Call, pc[c] \in {"exchange", "code"},
         NEW p \in {"store", "bind"}, NEW r \in 0..MaxGeneration,
         NEW b \in {"client_credentials", "authorization_code", "refresh_token"},
         p = "bind" => grant # "client_credentials" /\ pc[c] = "code" /\ r # 0,
         r = 0 => seen[c].refresh = 0,
         pc' = [pc EXCEPT ![c] = p],
         got' = [got EXCEPT ![c] = [refresh |-> r, expires |-> now + Lifetime, by |-> b]],
         UNCHANGED <<now, grant, stores, rotates, lost, erased, what, seen, streams>>,
         \/ generation' = generation /\ codeUsed' = codeUsed /\ r = 0
         \/ generation' = generation /\ codeUsed' = codeUsed /\ r = generation /\ ~rotates
         \/ /\ r = generation + 1 /\ generation' = r /\ codeUsed' = TRUE
            /\ \/ generation = 0 /\ pc[c] = "code"
               \/ generation # 0 /\ rotates /\ seen[c].refresh = generation
            /\ grant # "client_credentials"
  PROVE  IInv'
<1>0. UNCHANGED <<row, removed, account, flow, streamRead, accountRead>>
  BY DEF stores, streams
<1>1. /\ \A d \in Call : pc'[d] = IF d = c THEN p ELSE pc[d]
      /\ \A d \in Call : d # c => got'[d] = got[d]
      /\ got'[c] = [refresh |-> r, expires |-> now + Lifetime, by |-> b]
      /\ got'[c].refresh = r
  BY DEF IInv, TypeOK
<1>2. generation \in Nat /\ generation' \in Nat /\ r \in Nat /\ generation <= generation' /\ r <= generation'
  BY Numbers, TokenManagerAssumption DEF IInv
<1>3. ~Holds(c)
  BY DEF Holds
<1>4. TypeOK'
  <2>1. now + Lifetime \in 0..(MaxTime + Lifetime)
    BY TokenManagerAssumption DEF IInv, TypeOK
  <2>2. [refresh |-> r, expires |-> now + Lifetime, by |-> b] \in TokenSet
    BY <2>1 DEF TokenSet
  <2>3. got' \in [Call -> TokenSet] /\ pc' \in [Call -> Pc]
    BY <2>2 DEF IInv, TypeOK, Pc
  <2>4. generation' \in 0..MaxGeneration /\ codeUsed' \in BOOLEAN
    BY DEF IInv, TypeOK
  <2> QED
    BY <2>3, <2>4, <1>0 DEF IInv, TypeOK
<1>5. Issued'
  <2>1. row.tokens.refresh <= generation' /\ \A d \in Call : seen[d].refresh <= generation'
    BY <1>2, Numbers DEF IInv, Issued
  <2>2. \A d \in Call : got'[d].refresh <= generation'
    BY <1>1, <1>2, Numbers DEF IInv, Issued
  <2> QED
    BY <2>1, <2>2, <1>0 DEF Issued
<1>6. CodeFirst'
  <2>1. ~codeUsed' => generation' = 0
    BY DEF IInv, CodeFirst
  <2>2. grant = "client_credentials" => generation' = 0 /\ flow' = "none" /\ p \notin FlowSteps
    BY <1>0 DEF IInv, CodeFirst, FlowSteps
  <2>3. \A d \in Call : pc'[d] = "activate" => got'[d].refresh = 0
    BY <1>1 DEF IInv, CodeFirst
  <2> QED
    BY <2>1, <2>2, <2>3, <1>1 DEF IInv, CodeFirst
<1>7. Current'
  <2> SUFFICES ASSUME ~lost
               PROVE  /\ \A d \in Call : Holds(d)' => got'[d].refresh \in {0, generation'}
                      /\ rotates => \A d \in Call : HoldsCurrent(d)' =>
                           /\ row.tokens.refresh # generation'
                           /\ \A x \in Call : seen[x].refresh # generation'
                           /\ \A x \in Call : HoldsCurrent(x)' => x = d
    BY <1>0 DEF Current
  <2>1. \A d \in Call : d # c /\ Holds(d)' => Holds(d) /\ got'[d] = got[d] /\ got[d].refresh \in {0, generation}
    BY <1>1 DEF IInv, Current, Holds
  <2>2. CASE generation' = generation
    <3>1. \A d \in Call : Holds(d)' => got'[d].refresh \in {0, generation}
      BY <2>1, <2>2, <1>1
    <3>2. rotates => \A d \in Call : HoldsCurrent(d)' => HoldsCurrent(d)
      BY <2>1, <2>2, <1>1, <1>2 DEF HoldsCurrent
    <3> QED
      BY <3>1, <3>2, <2>2 DEF IInv, Current
  <2>3. CASE generation' = generation + 1 /\ r = generation'
    <3>1. generation = 0 \/ (rotates /\ seen[c].refresh = generation)
      BY <2>3, <1>2
    <3>2. rotates => \A d \in Call : d # c /\ Holds(d)' => got'[d].refresh # generation'
      BY <2>1, <2>3, <1>2
    <3>3. ~rotates => \A d \in Call : d # c /\ Holds(d)' => got'[d].refresh = 0
      BY <2>1, <3>1
    <3>4. ASSUME rotates PROVE \A d \in Call : d # c /\ Holds(d)' => got'[d].refresh = 0
      <4> SUFFICES ASSUME NEW d \in Call, d # c, Holds(d)', got'[d].refresh # 0
                   PROVE  FALSE
        OBVIOUS
      <4>1. HoldsCurrent(d) /\ generation # 0
        BY <2>1, <1>2 DEF HoldsCurrent
      <4>2. seen[c].refresh # generation
        BY <3>4, <4>1 DEF IInv, Current
      <4> QED
        BY <4>1, <4>2, <3>1
    <3> QED
      BY <3>2, <3>3, <3>4, <2>3, <1>1, <1>2, Numbers DEF IInv, Issued, HoldsCurrent
  <2> QED
    BY <2>2, <2>3
<1>8. CreatedOnce'
  BY <1>0, <1>1 DEF IInv, CreatedOnce
<1>9. RefreshTokenKept'
  <2>1. CASE generation' = generation
    <3>1. \A d \in Call : Holds(d) => Holds(d)' /\ got'[d] = got[d]
      BY <1>1, <1>3 DEF Holds
    <3> QED
      BY <3>1, <2>1, <1>0 DEF IInv, RefreshTokenKept
  <2>2. CASE r = generation'
    BY <2>2, <1>1 DEF Holds, RefreshTokenKept
  <2> QED
    BY <2>1, <2>2
<1>10. DisconnectIsFinal'
  BY <1>0 DEF IInv, DisconnectIsFinal
<1>11. RowFirst'
  BY <1>0, <1>1, <1>2 DEF IInv, RowFirst
<1>12. WhenceNone'
  BY <1>1 DEF IInv, WhenceNone
<1> QED
  BY <1>4, <1>5, <1>6, <1>7, <1>8, <1>9, <1>10, <1>11, <1>12 DEF IInv

-----------------------------------------------------------------------------
(* connectAvito, up to the first tokens. *)
LEMMA ConnectKeeps ==
  ASSUME IInv, NEW c \in Call, Connect(c)
  PROVE  IInv'
<1> USE DEF Connect, avito, Goto
<1>1. \A d \in Call : pc'[d] = IF d = c THEN "vault" ELSE pc[d]
  BY DEF IInv, TypeOK
<1>2. TypeOK'
  BY DEF IInv, TypeOK, Pc
<1>3. Issued' /\ DisconnectIsFinal'
  BY DEF IInv, Issued, DisconnectIsFinal
<1>4. CodeFirst'
  BY <1>1 DEF IInv, CodeFirst, FlowSteps
<1>5. \A d \in Call : Holds(d)' <=> Holds(d)
  BY <1>1 DEF Holds
<1>6. Current' /\ RefreshTokenKept'
  <2>1. \A d \in Call : HoldsCurrent(d)' <=> HoldsCurrent(d)
    BY <1>5 DEF HoldsCurrent
  <2> QED
    BY <1>5, <2>1 DEF IInv, Current, RefreshTokenKept
<1>7. CreatedOnce'
  BY <1>1 DEF IInv, CreatedOnce
<1>8. RowFirst' /\ WhenceNone'
  BY <1>1 DEF IInv, RowFirst, WhenceNone
<1> QED
  BY <1>2, <1>3, <1>4, <1>6, <1>7, <1>8 DEF IInv

LEMMA StoreRowKeeps ==
  ASSUME IInv, NEW c \in Call, StoreRow(c)
  PROVE  IInv'
<1> USE DEF StoreRow, avito, streams
<1>1. \A d \in Call : pc'[d] = IF d = c THEN (IF grant = "client_credentials" THEN "issue" ELSE "openFlow")
                                        ELSE pc[d]
  BY DEF IInv, TypeOK, Goto
<1>2. row'.tokens = NoTokens /\ row'.tokens.refresh = 0 /\ row' \in VaultRow
  BY Nothing DEF VaultRow, Status
<1>3. TypeOK'
  BY <1>2 DEF IInv, TypeOK, Pc, Goto
<1>4. Issued'
  BY <1>2, Numbers DEF IInv, Issued
<1>5. CodeFirst'
  BY <1>1 DEF IInv, CodeFirst, FlowSteps
<1>6. Current' /\ RefreshTokenKept'
  <2>0. generation = 0
    BY DEF IInv, CreatedOnce, RowFirst
  <2>1. \A d \in Call : Holds(d)' <=> Holds(d)
    BY <1>1 DEF Holds
  <2>2. \A d \in Call : HoldsCurrent(d)' => HoldsCurrent(d) /\ generation # 0
    BY <2>1 DEF HoldsCurrent
  <2> QED
    BY <1>2, <2>0, <2>1, <2>2 DEF IInv, Current, RefreshTokenKept
<1>7. CreatedOnce'
  <2>1. account # "none" /\ ~removed /\ \A d \in Call : pc'[d] # "vault"
    BY <1>1 DEF IInv, CreatedOnce
  <2> QED
    BY <2>1 DEF CreatedOnce
<1>8. DisconnectIsFinal'
  BY DEF IInv, CreatedOnce, DisconnectIsFinal
<1>9. RowFirst' /\ WhenceNone'
  <2>1. row' # NoRow
    BY DEF NoRow
  <2> QED
    BY <2>1, <1>1 DEF IInv, RowFirst, WhenceNone
<1> QED
  BY <1>3, <1>4, <1>5, <1>6, <1>7, <1>8, <1>9 DEF IInv

LEMMA IssueKeeps ==
  ASSUME IInv, NEW c \in Call, Issue(c)
  PROVE  IInv'
<1> USE DEF Issue, avito, streams, stores
<1>1. /\ \A d \in Call : pc'[d] = IF d = c THEN "activate" ELSE pc[d]
      /\ \A d \in Call : d # c => got'[d] = got[d]
      /\ got'[c] = [refresh |-> 0, expires |-> now + Lifetime, by |-> "client_credentials"]
  BY DEF IInv, TypeOK, Goto
<1>2. TypeOK'
  <2>1. now + Lifetime \in 0..(MaxTime + Lifetime) /\ 0 \in 0..MaxGeneration
    BY TokenManagerAssumption DEF IInv, TypeOK
  <2>2. [refresh |-> 0, expires |-> now + Lifetime, by |-> "client_credentials"] \in TokenSet
    BY <2>1 DEF TokenSet
  <2> QED
    BY <2>2 DEF IInv, TypeOK, Pc, Goto
<1>3. Issued' /\ DisconnectIsFinal'
  <2>1. \A d \in Call : got'[d].refresh <= generation
    BY <1>1, Numbers DEF IInv, Issued
  <2> QED
    BY <2>1 DEF IInv, Issued, DisconnectIsFinal
<1>4. CodeFirst'
  BY <1>1 DEF IInv, CodeFirst, FlowSteps
<1>5. \A d \in Call : /\ Holds(d)' <=> Holds(d)
                      /\ Holds(d) => got'[d] = got[d]
  BY <1>1 DEF Holds
<1>6. Current' /\ RefreshTokenKept'
  <2>1. \A d \in Call : HoldsCurrent(d)' <=> HoldsCurrent(d)
    BY <1>5 DEF HoldsCurrent
  <2> QED
    BY <1>5, <2>1 DEF IInv, Current, RefreshTokenKept
<1>7. CreatedOnce'
  BY <1>1 DEF IInv, CreatedOnce
<1>8. RowFirst' /\ WhenceNone'
  BY <1>1 DEF IInv, RowFirst, WhenceNone
<1> QED
  BY <1>2, <1>3, <1>4, <1>6, <1>7, <1>8 DEF IInv

(* The row goes, and with it its tokens. *)
LEMMA RemoveKeeps ==
  ASSUME IInv, NEW c \in Call, Remove(c)
  PROVE  IInv'
<1> USE DEF Remove, avito, streams
<1>1. \A d \in Call : pc'[d] = IF d = c THEN "loadToFail" ELSE pc[d]
  BY DEF IInv, TypeOK, Goto
<1>2. row'.tokens.refresh = 0
  BY Nothing
<1>3. TypeOK'
  BY DEF IInv, TypeOK, Pc, Goto
<1>4. Issued'
  BY <1>2, Numbers DEF IInv, Issued
<1>5. CodeFirst'
  BY <1>1 DEF IInv, CodeFirst, FlowSteps
<1>6. Current' /\ RefreshTokenKept'
  <2>1. \A d \in Call : Holds(d)' <=> Holds(d)
    BY <1>1 DEF Holds
  <2>2. \A d \in Call : HoldsCurrent(d)' => HoldsCurrent(d) /\ generation # 0
    BY <2>1 DEF HoldsCurrent
  <2> QED
    BY <1>2, <2>1, <2>2 DEF IInv, Current, RefreshTokenKept
<1>7. CreatedOnce'
  <2>1. account # "none" /\ \A d \in Call : pc[d] # "vault"
    BY DEF IInv, CreatedOnce
  <2> QED
    BY <2>1, <1>1 DEF CreatedOnce
<1>8. DisconnectIsFinal'
  BY DEF DisconnectIsFinal
<1>9. RowFirst' /\ WhenceNone'
  BY <1>1 DEF IInv, RowFirst, WhenceNone
<1> QED
  BY <1>3, <1>4, <1>5, <1>6, <1>7, <1>8, <1>9 DEF IInv

-----------------------------------------------------------------------------
(* Steps that neither store tokens nor receive them are Elsewhere.         *)
Aside(c) ==
  \/ OpenFlow(c) \/ Callback(c) \/ Load(c) \/ Authorize(c) \/ CloseFlow(c)
  \/ Disconnect(c) \/ Sweep(c) \/ Resolve(c) \/ RefreshByHand(c)
  \/ MarkDisconnected(c) \/ LoadToFail(c) \/ FailAuthorization(c)
  \/ Refused(c) \/ MarkReauth(c) \/ MarkExpired(c) \/ ReadStream(c)

LEMMA Relabelled ==
  ASSUME TypeOK, row # NoRow, NEW status \in Status, row' = [row EXCEPT !.status = status]
  PROVE  row' \in VaultRow /\ row'.tokens = row.tokens
BY DEF TypeOK, VaultRow

LEMMA AsideKeeps ==
  ASSUME IInv, NEW c \in Call, Aside(c)
  PROVE  IInv'
<1> USE DEF avito, streams, stores, locals, Goto, Announce
<1>0. /\ TypeOK /\ accountRead \subseteq Call /\ streamRead \subseteq Call /\ what \in [Call -> What]
      /\ account \in {"none", "pending", "active", "error"} /\ flow \in {"none", "open", "closed"}
      /\ grant = "client_credentials" => flow = "none" /\ pc[c] \notin FlowSteps
      /\ row = NoRow /\ ~removed => flow # "open" /\ pc[c] \notin {"openFlow", "code", "bind"}
  BY DEF IInv, TypeOK, CodeFirst, RowFirst
<1>1. CASE OpenFlow(c)
  <2>1. ~Holds(c) /\ "idle" \in Pc \ {"vault", "issue", "activate", "store", "bind"} /\ "idle" \notin FlowSteps
    BY <1>1 DEF OpenFlow, Holds, Pc, FlowSteps
  <2>2. grant # "client_credentials"
    BY <1>0, <1>1 DEF OpenFlow, FlowSteps
  <2>3. what' \in [Call -> What] /\ accountRead' \subseteq Call
    BY <1>0, <1>1 DEF OpenFlow, Finish, What
  <2> QED
    BY <1>0, <1>1, <2>1, <2>2, <2>3, Elsewhere DEF OpenFlow, Finish, HoldsCurrent
<1>2. CASE Callback(c)
  <2>1. ~Holds(c) /\ "code" \in Pc \ {"vault", "issue", "activate", "store", "bind"}
    BY <1>2 DEF Callback, Holds, Pc
  <2>2. grant # "client_credentials"
    BY <1>0, <1>2 DEF Callback
  <2> QED
    BY <1>0, <1>2, <2>1, <2>2, Elsewhere DEF Callback, HoldsCurrent
<1>3. CASE Load(c)
  <2>1. ~Holds(c) /\ "authorize" \in Pc \ {"vault", "issue", "activate", "store", "bind"} /\ "authorize" \notin FlowSteps
    BY <1>3 DEF Load, LoadAccount, Holds, Pc, FlowSteps
  <2> QED
    BY <1>0, <1>3, <2>1, Elsewhere DEF Load, LoadAccount, HoldsCurrent
<1>4. CASE LoadToFail(c)
  <2>1. ~Holds(c) /\ "fail" \in Pc \ {"vault", "issue", "activate", "store", "bind"} /\ "fail" \notin FlowSteps
    BY <1>4 DEF LoadToFail, LoadAccount, Holds, Pc, FlowSteps
  <2> QED
    BY <1>0, <1>4, <2>1, Elsewhere DEF LoadToFail, LoadAccount, HoldsCurrent
<1>5. ASSUME NEW at \in {"authorize", "fail"}, NEW status \in {"active", "error"},
             NEW event \in {"connected", "disconnected"}, SaveAccount(c, at, status, event)
      PROVE  IInv'
  <2>1. ~Holds(c) /\ \A p \in {"idle", "announce"} :
          p \in Pc \ {"vault", "issue", "activate", "store", "bind"} /\ p \notin FlowSteps
    BY <1>5 DEF SaveAccount, Holds, Pc, FlowSteps
  <2>2. what' \in [Call -> What] /\ accountRead' \subseteq Call
    BY <1>0, <1>5 DEF SaveAccount, Finish, What
  <2>3. CASE c \in accountRead
    BY <1>0, <1>5, <2>1, <2>2, <2>3, Elsewhere DEF SaveAccount, HoldsCurrent
  <2>4. CASE c \notin accountRead
    BY <1>0, <1>5, <2>1, <2>2, <2>4, Elsewhere DEF SaveAccount, Finish, HoldsCurrent
  <2> QED
    BY <2>3, <2>4
<1>6. CASE CloseFlow(c)
  <2>1. ~Holds(c) /\ "idle" \in Pc \ {"vault", "issue", "activate", "store", "bind"} /\ "idle" \notin FlowSteps
    BY <1>6 DEF CloseFlow, Holds, Pc, FlowSteps
  <2>2. grant # "client_credentials"
    BY <1>0, <1>6 DEF CloseFlow, FlowSteps
  <2>3. what' \in [Call -> What]
    BY <1>0, <1>6 DEF CloseFlow, Finish, What
  <2> QED
    BY <1>0, <1>6, <2>1, <2>2, <2>3, Elsewhere DEF CloseFlow, Finish, HoldsCurrent
<1>7. CASE Disconnect(c) \/ Sweep(c) \/ Resolve(c) \/ RefreshByHand(c)
  <2>1. ~Holds(c) /\ \A p \in {"disconnect", "read"} :
          p \in Pc \ {"vault", "issue", "activate", "store", "bind"} /\ p \notin FlowSteps
    BY <1>7 DEF Disconnect, Sweep, Resolve, RefreshByHand, Holds, Pc, FlowSteps
  <2> QED
    BY <1>0, <1>7, <2>1, Elsewhere DEF Disconnect, Sweep, Resolve, RefreshByHand, HoldsCurrent
<1>8. CASE Refused(c) \/ ReadStream(c)
  <2>1. ~Holds(c) /\ \A p \in {"mark", "append"} :
          p \in Pc \ {"vault", "issue", "activate", "store", "bind"} /\ p \notin FlowSteps
    BY <1>8 DEF Refused, Presents, ReadStream, Holds, Pc, FlowSteps
  <2> QED
    BY <1>0, <1>8, <2>1, Elsewhere DEF Refused, ReadStream, HoldsCurrent
<1>9. CASE MarkDisconnected(c)
  <2>1. ~Holds(c) /\ "remove" \in Pc \ {"vault", "issue", "activate", "store", "bind"} /\ "remove" \notin FlowSteps
    BY <1>9 DEF MarkDisconnected, UpdateStatus, Holds, Pc, FlowSteps
  <2>2. row # NoRow /\ row' \in VaultRow /\ row'.tokens = row.tokens
    BY <1>0, <1>9, Relabelled DEF MarkDisconnected, UpdateStatus, Status
  <2> QED
    BY <1>0, <1>9, <2>1, <2>2, Elsewhere DEF MarkDisconnected, UpdateStatus, HoldsCurrent
<1>10. CASE MarkReauth(c) \/ MarkExpired(c)
  <2>1. ~Holds(c) /\ \A p \in {"idle", "announce"} :
          p \in Pc \ {"vault", "issue", "activate", "store", "bind"} /\ p \notin FlowSteps
    BY <1>10 DEF MarkReauth, MarkExpired, UpdateStatus, Holds, Pc, FlowSteps
  <2>2. what' \in [Call -> What]
    BY <1>0, <1>10 DEF MarkReauth, MarkExpired, Finish, What
  <2>3. \/ row' = row
        \/ row # NoRow /\ row' \in VaultRow /\ row'.tokens = row.tokens
    BY <1>0, <1>10, Relabelled DEF MarkReauth, MarkExpired, UpdateStatus, Status
  <2>4. PICK p \in {"idle", "announce"} : pc' = [pc EXCEPT ![c] = p]
    BY <1>10 DEF MarkReauth, MarkExpired, UpdateStatus, Finish, Goto
  <2>5. /\ seen' = seen \/ seen' = [seen EXCEPT ![c] = NoTokens]
        /\ got' = got \/ got' = [got EXCEPT ![c] = NoTokens]
    BY <1>10 DEF MarkReauth, MarkExpired, Finish
  <2>6. /\ UNCHANGED <<now, grant, removed, rotates, generation, codeUsed>>
        /\ UNCHANGED <<account, flow, streamRead, accountRead, lost, erased>>
    BY <1>10 DEF MarkReauth, MarkExpired, avito, streams
  <2>7. /\ account \in {"none", "pending", "active", "error"}
        /\ flow \in {"none", "open", "closed"}
        /\ grant = "client_credentials" => flow = "none"
        /\ streamRead \subseteq Call /\ accountRead \subseteq Call
        /\ row = NoRow /\ ~removed => flow # "open"
    BY <1>0 DEF IInv, TypeOK, CodeFirst
  <2>8. ~HoldsCurrent(c)
    BY <2>1 DEF HoldsCurrent
  <2> QED
    BY <1>0, <2>1, <2>2, <2>3, <2>4, <2>5, <2>6, <2>7, <2>8, Elsewhere
<1>11. CASE Authorize(c)
  BY <1>5, <1>11 DEF Authorize
<1>12. CASE FailAuthorization(c)
  BY <1>5, <1>12 DEF FailAuthorization
<1> QED
  BY <1>1, <1>2, <1>3, <1>4, <1>6, <1>7, <1>8, <1>9, <1>10, <1>11, <1>12 DEF Aside

(* The row as a refresh reads it. *)
LEMMA ReadRowKeeps ==
  ASSUME IInv, NEW c \in Call, ReadRow(c)
  PROVE  IInv'
<1> USE DEF ReadRow, avito, streams, stores, Goto
<1>1. ~Holds(c)
  BY DEF Holds
<1>2. CASE row = NoRow
  <2>1. "idle" \in Pc \ {"vault", "issue", "activate", "store", "bind"} /\ "idle" \notin FlowSteps
    BY DEF Pc, FlowSteps
  <2>2. /\ what' \in [Call -> What] /\ account \in {"none", "pending", "active", "error"}
        /\ flow \in {"none", "open", "closed"} /\ streamRead \subseteq Call /\ accountRead \subseteq Call
        /\ grant = "client_credentials" => flow = "none"
        /\ row = NoRow /\ ~removed => flow # "open"
    BY <1>2 DEF IInv, TypeOK, CodeFirst, RowFirst, Finish, What
  <2> QED
    BY <1>1, <1>2, <2>1, <2>2, Elsewhere DEF Finish, HoldsCurrent
<1>3. CASE row # NoRow
  <2>1. /\ \A d \in Call : pc'[d] = IF d = c THEN "exchange" ELSE pc[d]
        /\ \A d \in Call : seen'[d] = IF d = c THEN row.tokens ELSE seen[d]
        /\ row.tokens \in TokenSet
    BY <1>3, Numbers DEF IInv, TypeOK
  <2>2. TypeOK'
    BY <1>3, <2>1 DEF IInv, TypeOK, Pc
  <2>3. Issued' /\ CodeFirst' /\ CreatedOnce' /\ DisconnectIsFinal'
    <3>1. Issued'
      BY <1>3, <2>1 DEF IInv, Issued
    <3>2. CodeFirst'
      BY <1>3, <2>1 DEF IInv, CodeFirst, FlowSteps
    <3>3. CreatedOnce' /\ DisconnectIsFinal'
      BY <2>1 DEF IInv, CreatedOnce, DisconnectIsFinal
    <3> QED
      BY <3>1, <3>2, <3>3
  <2>4. \A d \in Call : (Holds(d)' <=> Holds(d)) /\ (HoldsCurrent(d)' <=> HoldsCurrent(d))
    BY <1>3, <2>1 DEF Holds, HoldsCurrent
  <2>5. Current' /\ RefreshTokenKept'
    BY <1>3, <2>1, <2>4 DEF IInv, Current, RefreshTokenKept
  <2>6. RowFirst' /\ WhenceNone'
    BY <1>3, <2>1 DEF IInv, RowFirst, WhenceNone
  <2> QED
    BY <2>2, <2>3, <2>5, <2>6 DEF IInv
<1> QED
  BY <1>2, <1>3

(* The token endpoint's answers, with what they bring.                     *)
LEMMA AnswersKeep ==
  ASSUME IInv, NEW c \in Call,
         ByClientCredentials(c) \/ Refreshed(c) \/ Rotated(c) \/ ExchangeCode(c)
  PROVE  IInv'
<1> USE DEF Receive, Goto, Presents
<1>1. CASE ByClientCredentials(c)
  <2>1. seen[c].refresh = 0
    <3>1. grant = "client_credentials" => generation = 0
      BY DEF IInv, CodeFirst
    <3>2. seen[c].refresh \in Nat /\ seen[c].refresh <= generation
      BY Numbers DEF IInv, Issued
    <3> QED
      BY <1>1, <3>1, <3>2 DEF ByClientCredentials
  <2>2. 0 \in 0..MaxGeneration
    BY TokenManagerAssumption
  <2> QED
    BY <1>1, <2>1, <2>2, Receives DEF ByClientCredentials, avito
<1>2. CASE Refreshed(c)
  <2>1. generation \in 0..MaxGeneration /\ generation # 0
    BY <1>2 DEF IInv, TypeOK, Refreshed
  <2> QED
    BY <1>2, <2>1, Receives DEF Refreshed, avito
<1>3. CASE Rotated(c)
  <2>1. /\ generation + 1 \in 0..MaxGeneration /\ codeUsed = TRUE /\ grant # "client_credentials"
        /\ generation # 0 /\ generation + 1 # 0
    BY <1>3, TokenManagerAssumption DEF Rotated, IInv, TypeOK, CodeFirst
  <2> QED
    BY <1>3, <2>1, Receives DEF Rotated
<1>4. CASE ExchangeCode(c) /\ codeUsed
  <2>1. ~Holds(c) /\ "idle" \in Pc \ {"vault", "issue", "activate", "store", "bind"} /\ "idle" \notin FlowSteps
    BY <1>4 DEF ExchangeCode, Holds, Pc, FlowSteps
  <2>2. /\ what' \in [Call -> What] /\ account \in {"none", "pending", "active", "error"}
        /\ flow \in {"none", "open", "closed"} /\ streamRead \subseteq Call /\ accountRead \subseteq Call
        /\ grant = "client_credentials" => flow = "none"
        /\ row = NoRow /\ ~removed => flow # "open"
    BY <1>4 DEF ExchangeCode, IInv, TypeOK, CodeFirst, RowFirst, Finish, What
  <2> QED
    BY <1>4, <2>1, <2>2, Elsewhere DEF ExchangeCode, Finish, HoldsCurrent, stores, streams, avito
<1>5. CASE ExchangeCode(c) /\ ~codeUsed
  <2>1. /\ generation + 1 \in 0..MaxGeneration /\ generation + 1 # 0
        /\ generation = 0 /\ grant # "client_credentials"
    BY <1>5, TokenManagerAssumption DEF ExchangeCode, IInv, TypeOK, CodeFirst, FlowSteps
  <2> QED
    BY <1>5, <2>1, Receives DEF ExchangeCode
<1> QED
  BY <1>1, <1>2, <1>3, <1>4, <1>5

(* Tokens reach the row, or the row is gone. *)
LEMMA StoringKeeps ==
  ASSUME IInv, NEW c \in Call, Activate(c) \/ Bind(c) \/ StoreTokens(c)
  PROVE  IInv'
<1> USE DEF avito, streams, Goto, Announce
<1>0. /\ account \in {"none", "pending", "active", "error"} /\ what \in [Call -> What]
      /\ flow \in {"none", "open", "closed"} /\ streamRead \subseteq Call /\ accountRead \subseteq Call
      /\ grant = "client_credentials" => flow = "none"
      /\ row = NoRow /\ ~removed => flow # "open"
  BY DEF IInv, TypeOK, CodeFirst, RowFirst
<1>1. \A p \in {"idle", "mark", "authorize", "load", "announce"} :
        p \in Pc \ {"vault", "issue", "activate", "store", "bind"} /\ p \notin FlowSteps
  BY DEF Pc, FlowSteps
<1>2. ASSUME NEW at \in {"activate", "bind"}, NEW next \in {"authorize", "load"},
             StoreFirst(c, at, next)
      PROVE  IInv'
  <2>1. CASE UpdateTokens(got[c])
    <3>1. row # NoRow /\ pc[c] # "store"
      BY <1>2, <2>1 DEF UpdateTokens, StoreFirst
    <3>2. erased' = (erased \/ (pc[c] = "store" /\ seen[c].refresh = 0 /\ row.tokens.refresh # 0))
      BY <1>2, <3>1 DEF StoreFirst, IInv, TypeOK
    <3> QED
      BY <1>0, <1>1, <1>2, <2>1, <3>1, <3>2, Stores DEF StoreFirst
  <2>2. CASE row = NoRow
    <3>1. what' \in [Call -> What] /\ ~UpdateTokens(got[c])
      BY <1>0, <1>2, <2>2 DEF StoreFirst, Finish, What, UpdateTokens
    <3> QED
      BY <1>0, <1>1, <1>2, <2>2, <3>1, Elsewhere DEF StoreFirst, Finish
  <2> QED
    BY <1>2, <2>1, <2>2 DEF StoreFirst
<1>3. CASE StoreTokens(c)
  <2>1. CASE UpdateTokens(got[c])
    <3>1. row # NoRow
      BY <2>1 DEF UpdateTokens
    <3>2. what' \in [Call -> What]
      BY <1>0, <1>3, <3>1 DEF StoreTokens, What
    <3>3. erased' = (erased \/ (pc[c] = "store" /\ seen[c].refresh = 0 /\ row.tokens.refresh # 0))
      BY <1>3, <3>1 DEF StoreTokens
    <3> QED
      BY <1>0, <1>1, <1>3, <2>1, <3>1, <3>2, <3>3, Stores DEF StoreTokens
  <2>2. CASE row = NoRow
    <3>1. ~UpdateTokens(got[c])
      BY <2>2 DEF UpdateTokens
    <3> QED
      BY <1>0, <1>1, <1>3, <2>2, <3>1, Elsewhere DEF StoreTokens
  <2> QED
    BY <1>3, <2>1, <2>2 DEF StoreTokens
<1> QED
  BY <1>2, <1>3 DEF Activate, Bind

LEMMA AppendKeeps ==
  ASSUME IInv, NEW c \in Call, Append(c)
  PROVE  IInv'
<1> USE DEF Append, avito, streams, stores, Goto, Announce
<1>0. /\ account \in {"none", "pending", "active", "error"} /\ what \in [Call -> What]
      /\ flow \in {"none", "open", "closed"} /\ streamRead \subseteq Call /\ accountRead \subseteq Call
      /\ grant = "client_credentials" => flow = "none"
      /\ ~Holds(c)
      /\ row = NoRow /\ ~removed => flow # "open"
  BY DEF IInv, TypeOK, CodeFirst, RowFirst, Holds
<1>1. \A p \in {"idle", "mark", "announce", "expire", "closeFlow"} :
        p \in Pc \ {"vault", "issue", "activate", "store", "bind"} /\ (p \in FlowSteps => p = "closeFlow")
  BY DEF Pc, FlowSteps
<1>2. ASSUME NEW p \in {"idle", "mark", "expire", "closeFlow"}, Continue(c, p),
             p = "closeFlow" => grant # "client_credentials",
             streamRead' \subseteq Call, UNCHANGED <<now, grant, stores, avito, accountRead>>
      PROVE  IInv'
  <2>1. what' \in [Call -> What]
    BY <1>0, <1>2 DEF Continue, Finish, What
  <2>2. CASE p = "idle"
    BY <1>0, <1>1, <1>2, <2>1, <2>2, Elsewhere DEF Continue, Finish, HoldsCurrent
  <2>3. CASE p # "idle"
    BY <1>0, <1>1, <1>2, <2>1, <2>3, Elsewhere DEF Continue, HoldsCurrent
  <2> QED
    BY <2>2, <2>3
<1>3. /\ AfterStored(c) \in {"closeFlow", "expire", "idle"}
      /\ AfterStored(c) = "closeFlow" => grant # "client_credentials"
      /\ AfterError(c) \in {"mark", "idle"}
  BY DEF AfterStored, AfterError
<1>4. CASE c \in streamRead /\ what[c] = "disconnected"
  <2>1. what' \in [Call -> What] /\ streamRead' \subseteq Call
    BY <1>0, <1>4 DEF What
  <2> QED
    BY <1>0, <1>1, <1>4, <2>1, Elsewhere DEF HoldsCurrent
<1>5. CASE c \in streamRead /\ what[c] # "disconnected"
  BY <1>0, <1>2, <1>3, <1>5
<1>6. CASE c \notin streamRead
  BY <1>0, <1>2, <1>3, <1>6
<1> QED
  BY <1>4, <1>5, <1>6

(* A step fails; tokens the call held are lost with it. *)
LEMMA FailsKeeps ==
  ASSUME IInv, NEW c \in Call, Fails(c)
  PROVE  IInv'
<1> USE DEF Fails, streams, stores, Goto
<1>0. /\ account \in {"none", "pending", "active", "error"} /\ what \in [Call -> What]
      /\ flow \in {"none", "open", "closed"} /\ streamRead \subseteq Call /\ accountRead \subseteq Call
      /\ grant = "client_credentials" => flow = "none"
      /\ row = NoRow /\ ~removed => flow # "open"
  BY DEF IInv, TypeOK, CodeFirst, RowFirst
<1>1. \A p \in {"idle", "mark"} :
        p \in Pc \ {"vault", "issue", "activate", "store", "bind"} /\ p \notin FlowSteps
  BY DEF Pc, FlowSteps
<1>2. PICK p \in {"idle", "mark"} : Continue(c, p)
  BY DEF AfterError
<1>3. HoldsCurrent(c) => lost'
  BY DEF HoldsCurrent
<1>4. lost' = lost \/ lost' = TRUE
  BY DEF IInv, TypeOK
<1>5. what' \in [Call -> What]
  BY <1>0, <1>2 DEF Continue, Finish, What
<1>6. CASE p = "idle"
  BY <1>0, <1>1, <1>2, <1>3, <1>4, <1>5, <1>6, Elsewhere DEF Continue, Finish
<1>7. CASE p # "idle"
  BY <1>0, <1>1, <1>2, <1>3, <1>4, <1>5, <1>7, Elsewhere DEF Continue
<1> QED
  BY <1>6, <1>7

LEMMA AnswerLostKeeps ==
  ASSUME IInv, NEW c \in Call, AnswerLost(c)
  PROVE  IInv'
<1> USE DEF AnswerLost, streams, stores, Goto
<1>1. \A p \in {"idle", "mark"} :
        p \in Pc \ {"vault", "issue", "activate", "store", "bind"} /\ p \notin FlowSteps
  BY DEF Pc, FlowSteps
<1>2. PICK p \in {"idle", "mark"} : Continue(c, p)
  BY DEF AfterError
<1>3. /\ \A d \in Call : pc'[d] = IF d = c THEN p ELSE pc[d]
      /\ \A d \in Call : got'[d] \in {got[d], NoTokens} /\ seen'[d] \in {seen[d], NoTokens}
  BY <1>2 DEF Continue, Finish, IInv, TypeOK
<1>4. grant # "client_credentials"
  BY DEF Presents, IInv, TypeOK, CodeFirst, FlowSteps
<1>5. TypeOK'
  <2>1. generation' \in 0..MaxGeneration
    BY TokenManagerAssumption DEF IInv, TypeOK
  <2>2. pc' \in [Call -> Pc] /\ what' \in [Call -> What]
    BY <1>1, <1>2 DEF Continue, Finish, IInv, TypeOK, What
  <2>3. got' \in [Call -> TokenSet] /\ seen' \in [Call -> TokenSet]
    BY <1>2, Nothing DEF Continue, Finish, IInv, TypeOK
  <2> QED
    BY <2>1, <2>2, <2>3 DEF IInv, TypeOK
<1>6. Issued'
  BY <1>3, Nothing, Numbers DEF IInv, Issued
<1>7. CodeFirst'
  <2>1. \A d \in Call : pc'[d] = "activate" => got'[d].refresh = 0
    BY <1>1, <1>3, Nothing DEF IInv, CodeFirst
  <2>2. \A d \in Call : pc'[d] \notin {"issue", "activate"}
    BY <1>1, <1>3, <1>4 DEF IInv, CodeFirst
  <2> QED
    BY <1>4, <2>1, <2>2 DEF CodeFirst
<1>8. Current' /\ RefreshTokenKept'
  BY DEF Current, RefreshTokenKept
<1>9. CreatedOnce' /\ DisconnectIsFinal'
  BY <1>1, <1>3 DEF IInv, CreatedOnce, DisconnectIsFinal
<1>10. RowFirst'
  <2>1. row # NoRow \/ removed
    BY Numbers DEF Presents, IInv, RowFirst, Issued
  <2> QED
    BY <2>1 DEF RowFirst
<1>11. WhenceNone'
  <2>1. \A d \in Call \ {c} : got'[d] = got[d] /\ seen'[d] = seen[d]
    BY <1>2 DEF Continue, Finish, IInv, TypeOK
  <2> QED
    BY <2>1, <1>1, <1>3 DEF IInv, WhenceNone
<1> QED
  BY <1>5, <1>6, <1>7, <1>8, <1>9, <1>10, <1>11 DEF IInv

-----------------------------------------------------------------------------
LEMMA InitHolds == Init => IInv
<1> SUFFICES ASSUME Init PROVE IInv
  OBVIOUS
<1> USE DEF Init
<1>1. TypeOK
  <2>1. 0 \in 0..MaxTime /\ 0 \in 0..MaxGeneration
    BY TokenManagerAssumption
  <2>2. /\ pc \in [Call -> Pc] /\ what \in [Call -> What]
        /\ seen \in [Call -> TokenSet] /\ got \in [Call -> TokenSet]
    BY Nothing DEF Pc, What
  <2>3. row \in VaultRow \cup {NoRow}
    OBVIOUS
  <2> QED
    BY <2>1, <2>2, <2>3 DEF TypeOK
<1>2. Issued /\ RefreshTokenKept
  BY Nothing DEF Issued, RefreshTokenKept
<1>3. CodeFirst /\ Current /\ CreatedOnce /\ DisconnectIsFinal
  BY Nothing DEF CodeFirst, Current, CreatedOnce, DisconnectIsFinal, FlowSteps, Holds, HoldsCurrent
<1>4. RowFirst /\ WhenceNone
  BY DEF RowFirst, WhenceNone
<1> QED
  BY <1>1, <1>2, <1>3, <1>4 DEF IInv

LEMMA StepKeeps == IInv /\ [Next]_vars => IInv'
<1> SUFFICES ASSUME IInv, [Next]_vars PROVE IInv'
  OBVIOUS
<1>1. CASE Tick \/ OtherAccountWrite \/ UNCHANGED vars
  <2>1. /\ UNCHANGED <<grant, row, removed, account, flow, rotates, generation, codeUsed, lost, erased,
                       pc, what, seen, got, streamRead>>
        /\ now' \in 0..MaxTime
        /\ accountRead' \subseteq Call
    BY <1>1, TokenManagerAssumption
       DEF Tick, OtherAccountWrite, vars, stores, avito, locals, streams, IInv, TypeOK
  <2>2. TypeOK'
    BY <2>1 DEF IInv, TypeOK
  <2>3. Issued' /\ CodeFirst' /\ CreatedOnce' /\ DisconnectIsFinal'
    BY <2>1 DEF IInv, Issued, CodeFirst, CreatedOnce, DisconnectIsFinal
  <2>4. Current' /\ RefreshTokenKept'
    BY <2>1 DEF IInv, Current, RefreshTokenKept, HoldsCurrent, Holds
  <2>5. RowFirst' /\ WhenceNone'
    BY <2>1 DEF IInv, RowFirst, WhenceNone
  <2> QED
    BY <2>2, <2>3, <2>4, <2>5 DEF IInv
<1>2. ASSUME NEW c \in Call, Begin(c) \/ Step(c) \/ Fails(c) \/ AnswerLost(c)
      PROVE  IInv'
  <2>1. CASE Connect(c) \/ StoreRow(c) \/ Issue(c) \/ Remove(c)
    BY <2>1, ConnectKeeps, StoreRowKeeps, IssueKeeps, RemoveKeeps
  <2>2. CASE Aside(c)
    BY <2>2, AsideKeeps
  <2>3. CASE ReadRow(c)
    BY <2>3, ReadRowKeeps
  <2>4. CASE ByClientCredentials(c) \/ Refreshed(c) \/ Rotated(c) \/ ExchangeCode(c)
    BY <2>4, AnswersKeep
  <2>5. CASE Activate(c) \/ Bind(c) \/ StoreTokens(c)
    BY <2>5, StoringKeeps
  <2>6. CASE Append(c)
    BY <2>6, AppendKeeps
  <2>7. CASE Fails(c) \/ AnswerLost(c)
    BY <2>7, FailsKeeps, AnswerLostKeeps
  <2> QED
    BY <1>2, <2>1, <2>2, <2>3, <2>4, <2>5, <2>6, <2>7
       DEF Begin, Step, ConnectStep, RefreshStep, DisconnectStep, Aside
<1> QED
  BY <1>1, <1>2 DEF Next

(* The inductive invariant, of every behaviour. *)
THEOREM Invariance == Spec => []IInv
BY InitHolds, StepKeeps, PTL DEF Spec

(* Statuses, tokens and the clock stay within their sets. *)
THEOREM TypeCorrect == Spec => []TypeOK
<1>1. IInv => TypeOK
  BY DEF IInv
<1> QED
  BY <1>1, Invariance, PTL

(* refreshCredential: with sweeps, requests, callbacks and manual refreshes*)
(* in any number and order, and no answer of Avito lost, the row that      *)
(* exists once there is a refresh token holds the one Avito accepts, or is *)
(* about to; it never holds an older one, and none only after a call that  *)
(* had read none stored that over the callback's.                          *)
THEOREM TokenKept == Spec => []RefreshTokenKept
<1>1. IInv => RefreshTokenKept
  BY DEF IInv
<1> QED
  BY <1>1, Invariance, PTL

(* disconnectAvito: no call that was under way brings the row back. *)
THEOREM Disconnected == Spec => []DisconnectIsFinal
<1>1. IInv => DisconnectIsFinal
  BY DEF IInv
<1> QED
  BY <1>1, Invariance, PTL
=============================================================================
