------------------------------- MODULE McpAuth -------------------------------
(***************************************************************************)
(* The tokens of an HTTP server: PKCEFlow.EnsureToken of internal/mcp/auth, *)
(* run by every request of httpClient without a lock, over the keyring.    *)
(* A token is a number in the order in which they are issued.              *)
(***************************************************************************)
EXTENDS Naturals, FiniteSets

CONSTANTS Request,    \* requests of httpClient, of any agents
          MaxTokens,  \* pairs that are issued
          MaxFaults   \* times the network or the keyring fails

VARIABLES
  store,    \* the keyring: [access, refresh]; 0: none
  pc, held, \* held: the token read from, or to be saved to, the store
  sent,     \* the access token of the request; 0: none
  issued,   \* the last pair's number
  expired,  \* access tokens that are, or are within 30 seconds
  live,     \* refresh tokens the server takes
  faults,
  logins,   \* codes exchanged
  stingy,   \* history: an answer had no refresh token, or an access token for less than 30 s
  broken,   \* history: a refresh, its token's load or a save failed
  crossed   \* history: two requests got tokens at once

vars == <<store, pc, held, sent, issued, expired, live, faults, logins, stingy, broken, crossed>>

NoToken == [access |-> 0, refresh |-> 0]

Init ==
  /\ store = NoToken /\ pc = [r \in Request |-> "idle"] /\ held = [r \in Request |-> NoToken]
  /\ sent = [r \in Request |-> 0] /\ issued = 0 /\ expired = {} /\ live = {} /\ faults = 0
  /\ logins = 0 /\ stingy = FALSE /\ broken = FALSE /\ crossed = FALSE

validAccessToken(a) == a # 0 /\ a \notin expired

Go(r, to) == pc' = [pc EXCEPT ![r] = to]
busy(r) == pc[r] \in {"metadata", "refresh", "browser", "save"}
Fault == faults < MaxFaults /\ faults' = faults + 1

LoadValid(r) ==
  /\ pc[r] = "idle" /\ validAccessToken(store.access)
  /\ sent' = [sent EXCEPT ![r] = store.access] /\ Go(r, "done")
  /\ UNCHANGED <<store, held, issued, expired, live, faults, logins, stingy, broken, crossed>>

\* The keyring gives no token that can be used, or nothing that can be read.
LoadInvalid(r) ==
  /\ pc[r] = "idle" /\ Go(r, "metadata")
  /\ (~validAccessToken(store.access) /\ UNCHANGED faults) \/ Fault
  /\ crossed' = (crossed \/ \E o \in Request \ {r} : busy(o))
  /\ UNCHANGED <<store, held, sent, issued, expired, live, logins, stingy, broken>>

\* The two metadata documents; then the token is loaded again, for its refresh token.
Metadata(r) ==
  /\ pc[r] = "metadata" /\ held' = [held EXCEPT ![r] = store]
  /\ Go(r, IF store.refresh # 0 THEN "refresh" ELSE "browser")
  /\ UNCHANGED <<store, sent, issued, expired, live, faults, logins, stingy, broken, crossed>>

\* It cannot be read, which is taken for a user who never logged in.
ReloadFails(r) ==
  /\ pc[r] = "metadata" /\ Fault /\ broken' = TRUE /\ Go(r, "browser")
  /\ UNCHANGED <<store, held, sent, issued, expired, live, logins, stingy, crossed>>

MetadataFails(r) ==
  /\ pc[r] = "metadata" /\ Fault /\ Go(r, "failed")
  /\ UNCHANGED <<store, held, sent, issued, expired, live, logins, stingy, broken, crossed>>

\* The server answers with a new pair, or with an access token alone; it may stop
\* to take the old refresh token then.
Refresh(r) ==
  /\ pc[r] = "refresh" /\ held[r].refresh \in live /\ issued < MaxTokens
  /\ issued' = issued + 1 /\ Go(r, "save")
  /\ \/ /\ held' = [held EXCEPT ![r] = [access |-> issued', refresh |-> issued']]
        /\ \E keep \in BOOLEAN :
             live' = (IF keep THEN live ELSE live \ {held[r].refresh}) \cup {issued'}
        /\ UNCHANGED stingy
     \/ /\ held' = [held EXCEPT ![r] = [access |-> issued', refresh |-> 0]]
        /\ stingy' = TRUE /\ UNCHANGED live
  /\ UNCHANGED <<store, sent, expired, faults, logins, broken, crossed>>

\* A pair that is as good as expired is dropped, and the user asked.
RefreshShort(r) ==
  /\ pc[r] = "refresh" /\ held[r].refresh \in live /\ issued < MaxTokens
  /\ issued' = issued + 1 /\ expired' = expired \cup {issued'}
  /\ live' = (live \ {held[r].refresh}) \cup {issued'}
  /\ stingy' = TRUE /\ Go(r, "browser")
  /\ UNCHANGED <<store, held, sent, faults, logins, broken, crossed>>

RefreshRefused(r) ==
  /\ pc[r] = "refresh" /\ held[r].refresh \notin live /\ Go(r, "browser")
  /\ UNCHANGED <<store, held, sent, issued, expired, live, faults, logins, stingy, broken, crossed>>

\* The request or its answer is lost: the old token may be spent.
RefreshLost(r) ==
  /\ pc[r] = "refresh" /\ Fault /\ live' \in {live, live \ {held[r].refresh}}
  /\ broken' = TRUE /\ Go(r, "browser")
  /\ UNCHANGED <<store, held, sent, issued, expired, logins, stingy, crossed>>

\* The user logs in, and the code is exchanged: for a pair, or an access token alone.
Login(r) ==
  /\ pc[r] = "browser" /\ issued < MaxTokens /\ issued' = issued + 1 /\ logins' = logins + 1
  /\ Go(r, "save")
  /\ \/ /\ held' = [held EXCEPT ![r] = [access |-> issued', refresh |-> issued']]
        /\ live' = live \cup {issued'} /\ UNCHANGED stingy
     \/ /\ held' = [held EXCEPT ![r] = [access |-> issued', refresh |-> 0]]
        /\ stingy' = TRUE /\ UNCHANGED live
  /\ UNCHANGED <<store, sent, expired, faults, broken, crossed>>

\* Nobody logs in within the call's 45 seconds, or no browser opens.
LoginFails(r) ==
  /\ pc[r] = "browser" /\ Fault /\ Go(r, "failed")
  /\ UNCHANGED <<store, held, sent, issued, expired, live, logins, stingy, broken, crossed>>

Saved(r) == held[r]

Save(r) ==
  /\ pc[r] = "save" /\ store' = Saved(r) /\ sent' = [sent EXCEPT ![r] = held[r].access]
  /\ Go(r, "done")
  /\ UNCHANGED <<held, issued, expired, live, faults, logins, stingy, broken, crossed>>

SaveFails(r) ==
  /\ pc[r] = "save" /\ Fault /\ broken' = TRUE /\ Go(r, "failed")
  /\ UNCHANGED <<store, held, sent, issued, expired, live, logins, stingy, crossed>>

\* The next request of the same agent.
Again(r) ==
  /\ pc[r] \in {"done", "failed"} /\ Go(r, "idle")
  /\ held' = [held EXCEPT ![r] = NoToken] /\ sent' = [sent EXCEPT ![r] = 0]
  /\ UNCHANGED <<store, issued, expired, live, faults, logins, stingy, broken, crossed>>

Expire(a) ==
  /\ a \in 1..issued \ expired /\ expired' = expired \cup {a}
  /\ UNCHANGED <<store, pc, held, sent, issued, live, faults, logins, stingy, broken, crossed>>

Next ==
  \/ \E r \in Request :
       \/ LoadValid(r) \/ LoadInvalid(r) \/ Metadata(r) \/ MetadataFails(r)
       \/ ReloadFails(r) \/ Refresh(r) \/ RefreshShort(r) \/ RefreshRefused(r) \/ RefreshLost(r)
       \/ Login(r) \/ LoginFails(r) \/ Save(r) \/ SaveFails(r) \/ Again(r)
  \/ \E a \in 1..MaxTokens : Expire(a)

Spec == Init /\ [][Next]_vars

-----------------------------------------------------------------------------
TypeOK ==
  /\ store \in [access : 0..issued, refresh : 0..issued] /\ issued \in 0..MaxTokens
  /\ pc \in [Request -> {"idle", "metadata", "refresh", "browser", "save", "done", "failed"}]
  /\ held \in [Request -> [access : 0..issued, refresh : 0..issued]]
  /\ sent \in [Request -> 0..issued] /\ expired \subseteq 1..issued /\ live \subseteq 1..issued
  /\ faults \in 0..MaxFaults /\ logins \in 0..MaxTokens
  /\ {stingy, broken, crossed} \subseteq BOOLEAN

\* oauth.go: a user who has logged in is not asked again, unless the server gave no
\* refresh token or too short an access token, a refresh, a save or the load of the
\* refresh token failed, or two requests were at it at once.  A keyring that could not
\* be read when the access token was looked up is not enough.
LoginLasts ==
  ~stingy /\ ~broken /\ ~crossed =>
    /\ logins <= 1
    /\ \A r \in Request : pc[r] = "browser" => logins = 0
=============================================================================
