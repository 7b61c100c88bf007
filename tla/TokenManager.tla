---------------------------- MODULE TokenManager ----------------------------
(***************************************************************************)
(* The life of one marketplace credential: OAuthCenterService connects,    *)
(* completes and disconnects it, TokenManagerService refreshes it from a   *)
(* sweep every minute, before API requests and by hand, and                *)
(* CredentialVaultService keeps the row.  Nothing serialises these calls:  *)
(* every await is a point where another call may run.                      *)
(*                                                                         *)
(* The vault row, the account aggregate, the pending flow and the event    *)
(* stream <<"oauth", credentialId>> are separate stores, written one after *)
(* the other.  Optimistic appends are modelled by the set of calls whose   *)
(* last read of the stream is still current.  Avito's token endpoint is    *)
(* modelled from how the code uses it: either it rotates the refresh token *)
(* at each refresh and refuses the old one from then on, or it keeps it    *)
(* (`tokens.refreshToken ?? secrets.refreshToken`).                        *)
(***************************************************************************)
EXTENDS Integers, FiniteSets

CONSTANTS Call,          \* calls in flight: ticks, requests, callbacks
          Lifetime,      \* expires_in
          Lead,          \* OAUTH_TOKEN_REFRESH_LEAD_SEC
          MaxTime,       \* bound on the clock
          MaxGeneration  \* bound on refresh tokens issued

ASSUME TokenManagerAssumption ==
  /\ Lead \in Nat
  /\ Lifetime \in Nat /\ Lifetime > Lead
  /\ MaxTime \in Nat
  /\ MaxGeneration \in Nat

VARIABLES
  now,         \* the clock
  grant,       \* grantType the account was connected with
  row,         \* the vault row, or NoRow
  removed,     \* the row was deleted
  account,     \* status of the account aggregate
  flow,        \* the pending flow: "none", "open" or "closed"
  rotates,     \* Avito: a refresh brings a new refresh token
  generation,  \* Avito: the refresh token it accepts, 0 before the first
  codeUsed,    \* Avito: the authorization code was exchanged
  lost,        \* history: a token that Avito issued never reached the vault
  erased,      \* history: a call that had found no refresh token in the row
               \* has stored that over one that came in the meantime
  pc,          \* next step of each call
  what,        \* the event a call is about to append
  seen,        \* the tokens of the row a call read
  got,         \* the tokens a call received
  streamRead,  \* calls whose read of the oauth stream is current
  accountRead  \* calls whose load of the account is current

avito   == <<rotates, generation, codeUsed, lost, erased>>
streams == <<streamRead, accountRead>>
stores  == <<row, removed, account, flow>>
locals  == <<pc, what, seen, got>>
vars    == <<now, grant, stores, avito, locals, streams>>

Status   == {"pending", "connected", "reauth_required", "expired", "disconnected"}
TokenSet == [refresh : 0..MaxGeneration, expires : 0..(MaxTime + Lifetime),
             by : {"none", "client_credentials", "authorization_code", "refresh_token"}]
NoTokens == [refresh |-> 0, expires |-> 0, by |-> "none"]
VaultRow == [status : Status, tokens : TokenSet]
NoRow    == [status |-> "none", tokens |-> NoTokens]

What == {"none", "connected", "refreshed", "failed", "expired", "disconnected", "removed"}
Pc   == {"idle", "vault", "openFlow", "issue", "activate", "read", "exchange", "store", "mark",
         "expire", "announce", "append", "code", "bind", "load", "authorize",
         "closeFlow", "disconnect", "remove", "loadToFail", "fail"}

TypeOK ==
  /\ now \in 0..MaxTime
  /\ grant \in {"authorization_code", "client_credentials"}
  /\ row \in VaultRow \cup {NoRow}
  /\ removed \in BOOLEAN
  /\ account \in {"none", "pending", "active", "error"}
  /\ flow \in {"none", "open", "closed"}
  /\ rotates \in BOOLEAN
  /\ generation \in 0..MaxGeneration
  /\ codeUsed \in BOOLEAN
  /\ lost \in BOOLEAN
  /\ erased \in BOOLEAN
  /\ pc \in [Call -> Pc]
  /\ what \in [Call -> What]
  /\ seen \in [Call -> TokenSet]
  /\ got \in [Call -> TokenSet]
  /\ streamRead \subseteq Call
  /\ accountRead \subseteq Call

Init ==
  /\ now = 0
  /\ grant \in {"authorization_code", "client_credentials"}
  /\ row = NoRow
  /\ removed = FALSE
  /\ account = "none"
  /\ flow = "none"
  /\ rotates \in BOOLEAN
  /\ generation = 0
  /\ codeUsed = FALSE
  /\ lost = FALSE
  /\ erased = FALSE
  /\ pc = [c \in Call |-> "idle"]
  /\ what = [c \in Call |-> "none"]
  /\ seen = [c \in Call |-> NoTokens]
  /\ got = [c \in Call |-> NoTokens]
  /\ streamRead = {}
  /\ accountRead = {}

-----------------------------------------------------------------------------
Goto(c, step) == pc' = [pc EXCEPT ![c] = step]

(* Locals are dead once a call is over. *)
Finish(c) ==
  /\ Goto(c, "idle")
  /\ what' = [what EXCEPT ![c] = "none"]
  /\ seen' = [seen EXCEPT ![c] = NoTokens]
  /\ got' = [got EXCEPT ![c] = NoTokens]

(* A call goes on with its next step, or is over. *)
Continue(c, step) ==
  IF step = "idle" THEN Finish(c)
                   ELSE Goto(c, step) /\ UNCHANGED <<what, seen, got>>

Announce(c, event) ==
  /\ Goto(c, "announce")
  /\ what' = [what EXCEPT ![c] = event]

(* tokenExpiresAt <= at; a row without tokens has no tokenExpiresAt. *)
HasTokens(tokens)     == tokens.by # "none"
ExpiresBy(tokens, at) == HasTokens(tokens) /\ tokens.expires <= at

Tick ==
  /\ now < MaxTime
  /\ now' = now + 1
  /\ UNCHANGED <<grant, stores, avito, locals, streams>>

-----------------------------------------------------------------------------
(* connectAvito: the account under a fresh id, whose aggregate the call    *)
(* keeps...                                                                *)
Connect(c) ==
  /\ pc[c] = "idle"
  /\ account = "none"
  /\ account' = "pending"
  /\ accountRead' = {c}
  /\ Goto(c, "vault")
  /\ UNCHANGED <<now, grant, row, removed, flow, avito, what, seen, got, streamRead>>

(* ... the PENDING row, and then at once the client_credentials grant...   *)
StoreRow(c) ==
  /\ pc[c] = "vault"
  /\ row' = [status |-> "pending", tokens |-> NoTokens]
  /\ Goto(c, IF grant = "client_credentials" THEN "issue" ELSE "openFlow")
  /\ UNCHANGED <<now, grant, removed, account, flow, avito, what, seen, got, streams>>

(* ... or the flow a callback will close. *)
OpenFlow(c) ==
  /\ pc[c] = "openFlow"
  /\ flow' = "open"
  /\ accountRead' = accountRead \ {c}
  /\ Finish(c)
  /\ UNCHANGED <<now, grant, row, removed, account, avito, streamRead>>

(* The token endpoint answers: exchangeClientCredentials, no refresh token.*)
Issue(c) ==
  /\ pc[c] = "issue"
  /\ got' = [got EXCEPT ![c] = [refresh |-> 0, expires |-> now + Lifetime,
                                by |-> "client_credentials"]]
  /\ Goto(c, "activate")
  /\ UNCHANGED <<now, grant, stores, avito, what, seen, streams>>

(* Mutant of UpdateTokens: an upsert. *)
UpdateTokens_Upsert(tokens) ==
  row' = [status |-> "connected", tokens |-> tokens]

(* updateTokens: throws when the row is gone. *)
UpdateTokens(tokens) ==
  /\ row # NoRow
  /\ row' = [status |-> "connected", tokens |-> tokens]

(* connectAvito and handleAvitoCallback store the tokens they received, or *)
(* throw.                                                                  *)
StoreFirst(c, at, next) ==
  /\ pc[c] = at
  /\ \/ /\ UpdateTokens(got[c])
        /\ Goto(c, next)
        /\ got' = [got EXCEPT ![c] = NoTokens]
        /\ UNCHANGED <<what, seen>>
     \/ /\ row = NoRow
        /\ Finish(c)
        /\ UNCHANGED row
  /\ UNCHANGED <<now, grant, removed, account, flow, avito, streams>>

Activate(c) == StoreFirst(c, "activate", "authorize")

(* handleAvitoCallback: one open flow, any number of callbacks for it.     *)
Callback(c) ==
  /\ pc[c] = "idle"
  /\ flow = "open"
  /\ Goto(c, "code")
  /\ UNCHANGED <<now, grant, stores, avito, what, seen, got, streams>>

(* exchangeAuthorizationCode: a code is good for one exchange. *)
ExchangeCode(c) ==
  /\ pc[c] = "code"
  /\ IF codeUsed
     THEN Finish(c) /\ UNCHANGED avito
     ELSE /\ generation < MaxGeneration
          /\ generation' = generation + 1
          /\ codeUsed' = TRUE
          /\ got' = [got EXCEPT ![c] = [refresh |-> generation + 1,
                                        expires |-> now + Lifetime,
                                        by |-> "authorization_code"]]
          /\ Goto(c, "bind")
          /\ UNCHANGED <<rotates, lost, erased, what, seen>>
  /\ UNCHANGED <<now, grant, stores, streams>>

Bind(c) == StoreFirst(c, "bind", "load")

LoadAccount(c, at, next) ==
  /\ pc[c] = at
  /\ accountRead' = accountRead \cup {c}
  /\ Goto(c, next)
  /\ UNCHANGED <<now, grant, stores, avito, what, seen, got, streamRead>>

Load(c) == LoadAccount(c, "load", "authorize")

(* accountRepo.save: a load that is not current any more throws and ends   *)
(* the call.                                                               *)
SaveAccount(c, at, status, event) ==
  /\ pc[c] = at
  /\ IF c \in accountRead
     THEN /\ account' = status
          /\ accountRead' = {}
          /\ Announce(c, event)
          /\ UNCHANGED <<seen, got>>
     ELSE Finish(c) /\ UNCHANGED <<account, accountRead>>
  /\ UNCHANGED <<now, grant, row, removed, flow, avito, streamRead>>

Authorize(c) == SaveAccount(c, "authorize", "active", "connected")

(* Any other writer of the account aggregate: startSync, completeSync...   *)
OtherAccountWrite ==
  /\ accountRead # {}
  /\ accountRead' = {}
  /\ UNCHANGED <<now, grant, stores, avito, locals, streamRead>>

CloseFlow(c) ==
  /\ pc[c] = "closeFlow"
  /\ flow' = "closed"
  /\ Finish(c)
  /\ UNCHANGED <<now, grant, row, removed, account, avito, streams>>

-----------------------------------------------------------------------------
(* disconnectAvito: the row is marked, deleted, and then the account is    *)
(* told.                                                                   *)
Disconnect(c) ==
  /\ pc[c] = "idle"
  /\ row # NoRow
  /\ Goto(c, "disconnect")
  /\ UNCHANGED <<now, grant, stores, avito, what, seen, got, streams>>

(* updateStatus: throws when the row is gone. *)
UpdateStatus(c, at, status, next) ==
  /\ pc[c] = at
  /\ row # NoRow
  /\ row' = [row EXCEPT !.status = status]
  /\ Goto(c, next)

MarkDisconnected(c) ==
  /\ UpdateStatus(c, "disconnect", "disconnected", "remove")
  /\ UNCHANGED <<now, grant, removed, account, flow, avito, what, seen, got, streams>>

Remove(c) ==
  /\ pc[c] = "remove"
  /\ row # NoRow
  /\ row' = NoRow
  /\ removed' = TRUE
  /\ Goto(c, "loadToFail")
  /\ UNCHANGED <<now, grant, account, flow, avito, what, seen, got, streams>>

LoadToFail(c) == LoadAccount(c, "loadToFail", "fail")

FailAuthorization(c) == SaveAccount(c, "fail", "error", "disconnected")

-----------------------------------------------------------------------------
(* listExpiringBefore(now + lead). *)
Expiring == row.status = "connected" /\ ExpiresBy(row.tokens, now + Lead)

(* refreshExpiring: the tick lists the row, and refreshes it if it can.    *)
Sweep(c) ==
  /\ pc[c] = "idle"
  /\ Expiring
  /\ row.tokens.refresh # 0 \/ grant = "client_credentials"
  /\ Goto(c, "read")
  /\ UNCHANGED <<now, grant, stores, avito, what, seen, got, streams>>

(* resolveAccessToken, before an API request, within the lead window.      *)
Resolve(c) ==
  /\ pc[c] = "idle"
  /\ row.status \in {"connected", "pending"}
  /\ ~HasTokens(row.tokens) \/ ExpiresBy(row.tokens, now + Lead)
  /\ Goto(c, "read")
  /\ UNCHANGED <<now, grant, stores, avito, what, seen, got, streams>>

(* refreshAvito, the button: any status. *)
RefreshByHand(c) ==
  /\ pc[c] = "idle"
  /\ row # NoRow
  /\ Goto(c, "read")
  /\ UNCHANGED <<now, grant, stores, avito, what, seen, got, streams>>

(* refreshCredential reads the row again; nothing is asked of it but that  *)
(* it is there.                                                            *)
ReadRow(c) ==
  /\ pc[c] = "read"
  /\ IF row = NoRow
     THEN Finish(c)
     ELSE /\ seen' = [seen EXCEPT ![c] = row.tokens]
          /\ Goto(c, "exchange")
          /\ UNCHANGED <<what, got>>
  /\ UNCHANGED <<now, grant, stores, avito, streams>>

(* Mutant of Receive: expires_in is taken for minutes. *)
Receive_Minutes(c, refresh, by) ==
  /\ got' = [got EXCEPT ![c] = [refresh |-> refresh, expires |-> now + 60 * Lifetime, by |-> by]]
  /\ Goto(c, "store")

Receive(c, refresh, by) ==
  /\ got' = [got EXCEPT ![c] = [refresh |-> refresh, expires |-> now + Lifetime, by |-> by]]
  /\ Goto(c, "store")

ByClientCredentials(c) ==
  /\ pc[c] = "exchange"
  /\ grant = "client_credentials" \/ seen[c].refresh = 0
  /\ Receive(c, seen[c].refresh, "client_credentials")
  /\ UNCHANGED <<now, grant, stores, avito, what, seen, streams>>

Presents(c) ==
  /\ pc[c] = "exchange"
  /\ grant = "authorization_code" /\ seen[c].refresh # 0

(* Avito accepts the refresh token and keeps it. *)
Refreshed(c) ==
  /\ Presents(c)
  /\ seen[c].refresh = generation
  /\ ~rotates
  /\ Receive(c, seen[c].refresh, "refresh_token")
  /\ UNCHANGED <<now, grant, stores, avito, what, seen, streams>>

(* Mutant of Rotated: `secrets.refreshToken ?? tokens.refreshToken`. *)
Rotated_KeepsOld(c) ==
  /\ Presents(c)
  /\ seen[c].refresh = generation
  /\ rotates
  /\ generation < MaxGeneration
  /\ generation' = generation + 1
  /\ Receive(c, seen[c].refresh, "refresh_token")
  /\ UNCHANGED <<now, grant, stores, rotates, codeUsed, lost, erased, what, seen, streams>>

(* Avito accepts it and issues another in its place. *)
Rotated(c) ==
  /\ Presents(c)
  /\ seen[c].refresh = generation
  /\ rotates
  /\ generation < MaxGeneration
  /\ generation' = generation + 1
  /\ Receive(c, generation + 1, "refresh_token")
  /\ UNCHANGED <<now, grant, stores, rotates, codeUsed, lost, erased, what, seen, streams>>

Refused(c) ==
  /\ Presents(c)
  /\ seen[c].refresh # generation
  /\ Goto(c, "mark")
  /\ UNCHANGED <<now, grant, stores, avito, what, seen, got, streams>>

(* vault.updateTokens, NotFound goes to the catch.  The refresh token is   *)
(* always written: `tokens.refreshToken ?? secrets.refreshToken`, null if  *)
(* the call had read none, whatever the row holds by now.                  *)
StoreTokens(c) ==
  /\ pc[c] = "store"
  /\ got' = [got EXCEPT ![c] = NoTokens]
  /\ \/ /\ UpdateTokens(got[c])
        /\ Announce(c, "refreshed")
        /\ erased' = (erased \/ (seen[c].refresh = 0 /\ row.tokens.refresh # 0))
     \/ /\ row = NoRow
        /\ Goto(c, "mark")
        /\ UNCHANGED <<row, what, erased>>
  /\ UNCHANGED <<now, grant, removed, account, flow,
                 rotates, generation, codeUsed, lost, seen, streams>>

(* The catch of refreshCredential. *)
MarkReauth(c) ==
  /\ \/ /\ UpdateStatus(c, "mark", "reauth_required", "announce")
        /\ what' = [what EXCEPT ![c] = "failed"]
        /\ UNCHANGED <<seen, got>>
     \/ /\ pc[c] = "mark"
        /\ row = NoRow
        /\ Finish(c)
        /\ UNCHANGED row
  /\ UNCHANGED <<now, grant, removed, account, flow, avito, streams>>

(* The token the call had read is past its expiry. *)
MarkExpired(c) ==
  /\ \/ /\ UpdateStatus(c, "expire", "expired", "announce")
        /\ what' = [what EXCEPT ![c] = "expired"]
        /\ UNCHANGED <<seen, got>>
     \/ /\ pc[c] = "expire"
        /\ row = NoRow
        /\ Finish(c)
        /\ UNCHANGED row
  /\ UNCHANGED <<now, grant, removed, account, flow, avito, streams>>

-----------------------------------------------------------------------------
(* OAuthEventPublisher.publish: read the stream, then append to it.        *)
ReadStream(c) ==
  /\ pc[c] = "announce"
  /\ streamRead' = streamRead \cup {c}
  /\ Goto(c, "append")
  /\ UNCHANGED <<now, grant, stores, avito, what, seen, got, accountRead>>

(* What follows the event a call announced, once it is stored... *)
AfterStored(c) ==
  CASE what[c] = "connected" /\ grant = "authorization_code" -> "closeFlow"
    [] what[c] = "failed" /\ ExpiresBy(seen[c], now)         -> "expire"
    [] OTHER                                                 -> "idle"

(* ... and when a step of the call throws: refreshCredential catches what  *)
(* its try block throws, the announcement of its success included; all the *)
(* rest ends the call.                                                     *)
AfterError(c) ==
  IF \/ pc[c] \in {"exchange", "store"}
     \/ pc[c] \in {"announce", "append"} /\ what[c] = "refreshed"
  THEN "mark" ELSE "idle"

(* Two calls that read the stream at the same version: one append fails.   *)
(* A disconnect announces two events.                                      *)
Append(c) ==
  /\ pc[c] = "append"
  /\ \/ /\ c \in streamRead
        /\ streamRead' = {}
        /\ IF what[c] = "disconnected"
           THEN Announce(c, "removed") /\ UNCHANGED <<seen, got>>
           ELSE Continue(c, AfterStored(c))
     \/ /\ c \notin streamRead
        /\ Continue(c, AfterError(c))
        /\ UNCHANGED streamRead
  /\ UNCHANGED <<now, grant, stores, avito, accountRead>>

-----------------------------------------------------------------------------
(* Tokens in the hands of a call that has not stored them yet. *)
Holds(c) == pc[c] \in {"store", "bind"}

(* Avito, the database or Redis fails the step a call is at, or its        *)
(* process dies.                                                           *)
Fails(c) ==
  /\ pc[c] # "idle"
  /\ lost' = (lost \/ (Holds(c) /\ got[c].refresh = generation))
  /\ \E step \in {AfterError(c), "idle"} : Continue(c, step)
  /\ UNCHANGED <<now, grant, stores, rotates, generation, codeUsed, erased, streams>>

(* Avito rotated the token or used the code up, and the answer is lost.    *)
AnswerLost(c) ==
  /\ pc[c] \in {"exchange", "code"}
  /\ pc[c] = "exchange" => rotates /\ Presents(c) /\ seen[c].refresh = generation
  /\ pc[c] = "code" => ~codeUsed
  /\ generation < MaxGeneration
  /\ generation' = generation + 1
  /\ codeUsed' = TRUE
  /\ lost' = TRUE
  /\ Continue(c, AfterError(c))
  /\ UNCHANGED <<now, grant, stores, rotates, erased, streams>>

Begin(c) ==
  Connect(c) \/ Callback(c) \/ Disconnect(c) \/ Sweep(c) \/ Resolve(c) \/ RefreshByHand(c)

ConnectStep(c) ==
  StoreRow(c) \/ OpenFlow(c) \/ Issue(c) \/ Activate(c) \/ ExchangeCode(c) \/ Bind(c)
    \/ Load(c) \/ Authorize(c) \/ CloseFlow(c)

RefreshStep(c) ==
  ReadRow(c) \/ ByClientCredentials(c) \/ Refreshed(c) \/ Rotated(c) \/ Refused(c)
    \/ StoreTokens(c) \/ MarkReauth(c) \/ MarkExpired(c)

DisconnectStep(c) ==
  MarkDisconnected(c) \/ Remove(c) \/ LoadToFail(c) \/ FailAuthorization(c)

Step(c) ==
  ConnectStep(c) \/ RefreshStep(c) \/ DisconnectStep(c) \/ ReadStream(c) \/ Append(c)

Next ==
  \/ Tick \/ OtherAccountWrite
  \/ \E c \in Call : Begin(c) \/ Step(c) \/ Fails(c) \/ AnswerLost(c)

Spec == Init /\ [][Next]_vars

-----------------------------------------------------------------------------
(* Avito's current refresh token is where the code expects it: as long as  *)
(* no answer and no call that held one was lost, the row that exists once  *)
(* Avito has issued a refresh token holds the one Avito accepts, or a call *)
(* is about to store it.  A slower call never puts an older token back,    *)
(* which would end the account's access for good.  What a slower call can  *)
(* do is erase the token, and only in one way: it had read the row before  *)
(* any refresh token was there, in a state PENDING that the callback ended *)
(* in the meantime (refreshCredential).                                    *)
RefreshTokenKept ==
  generation # 0 /\ row # NoRow /\ ~lost =>
    \/ row.tokens.refresh = generation
    \/ \E c \in Call : Holds(c) /\ got[c].refresh = generation
    \/ erased /\ row.tokens.refresh = 0

(* A disconnect is final: a refresh or a callback that was under way when  *)
(* the row was deleted does not bring the account's tokens back.           *)
DisconnectIsFinal == removed => row = NoRow
=============================================================================
