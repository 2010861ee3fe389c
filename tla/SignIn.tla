-------------------------------- MODULE SignIn --------------------------------
(***************************************************************************)
(* Sign-in with Ethereum.  A challenge stores a nonce for an address and   *)
(* returns a message with it and the time; the address' wallet signs the   *)
(* message; the verification takes the nonce, builds the message again and *)
(* compares its signer.  Nonces are kept in memory, or in Redis, which     *)
(* reads and deletes in two commands.  No handler asks for the token.      *)
(***************************************************************************)
EXTENDS Naturals

CONSTANTS Signer,    \* addresses
          Login,     \* requests
          NoEntry,
          NonceTtl,  \* 300 s
          MaxNonce,  \* bounds: challenges, and
          MaxSecs    \* the time

\* build_siwe_message: the expiry is 300 s after the issue.
Message == [address : Signer, nonce : 1 .. MaxNonce, at : 0 .. MaxSecs]
Signature == [signer : Signer, message : Message]
Entry == [nonce : 1 .. MaxNonce, exp : Nat, gone : Nat]

ASSUME SignInConstants ==
  /\ Signer # {} /\ NoEntry \notin Signature \cup Entry
  /\ NonceTtl \in Nat /\ MaxNonce \in Nat /\ MaxSecs \in Nat

VARIABLES
  store,      \* NonceStoreBackend: "memory" or "redis"
  secs,       \* the time
  nonces,     \* how many were generated
  entries,    \* the store: per address the nonce, its expiry and Redis' own
  logins,     \* the requests
  issued,     \* the messages returned by challenges
  signatures, \* what the wallets signed
  tokens      \* history: the tokens returned

storeVars == <<store, entries>>
messageVars == <<issued, signatures>>
signInVars == <<storeVars, secs, nonces, logins, messageVars, tokens>>

LoginState ==
  [step : {"idle", "set", "get", "del", "check", "done", "no challenge", "expired",
           "not signed"},
   address : Signer, now : 0 .. MaxSecs, nonce : 0 .. MaxNonce, exp : Nat,
   signature : Signature \cup {NoEntry}]
Token == [login : Login, address : Signer, nonce : 1 .. MaxNonce, iat : 0 .. MaxSecs]

SignInTypeOK ==
  /\ store \in {"memory", "redis"}
  /\ secs \in 0 .. MaxSecs /\ nonces \in 0 .. MaxNonce
  /\ entries \in [Signer -> Entry \cup {NoEntry}]
  /\ logins \in [Login -> LoginState]
  /\ issued \subseteq Message /\ signatures \subseteq Signature
  /\ tokens \subseteq Token

SignInInit ==
  /\ store \in {"memory", "redis"}
  /\ secs = 0 /\ nonces = 0
  /\ entries = [a \in Signer |-> NoEntry]
  /\ logins = [l \in Login |-> [step |-> "idle", address |-> CHOOSE a \in Signer : TRUE,
                                now |-> 0, nonce |-> 0, exp |-> 0, signature |-> NoEntry]]
  /\ issued = {} /\ signatures = {} /\ tokens = {}

-----------------------------------------------------------------------------
\* POST /api/auth/challenge: the nonce, the time and the message.
Challenge(l, a) ==
  /\ logins[l].step = "idle" /\ nonces < MaxNonce
  /\ nonces' = nonces + 1
  /\ logins' = [logins EXCEPT ![l].step = "set", ![l].address = a, ![l].now = secs,
                              ![l].nonce = nonces']
  /\ UNCHANGED <<storeVars, secs, messageVars, tokens>>

\* The memory is cleared of expired entries; Redis drops each by itself.
Unexpired(e) == e # NoEntry /\ e.exp > secs
SetNonce(l) ==
  /\ logins[l].step = "set"
  /\ LET r == logins[l]
     IN  /\ entries' =
              [a \in Signer |->
                 IF a = r.address
                 THEN [nonce |-> r.nonce, exp |-> r.now + NonceTtl, gone |-> secs + NonceTtl]
                 ELSE IF store = "redis" \/ Unexpired(entries[a]) THEN entries[a]
                 ELSE NoEntry]
         /\ issued' = issued \cup {[address |-> r.address, nonce |-> r.nonce, at |-> r.now]}
  /\ logins' = [logins EXCEPT ![l].step = "done"]
  /\ UNCHANGED <<store, secs, nonces, signatures, tokens>>
RedisExpires(a) ==
  /\ store = "redis" /\ entries[a] # NoEntry /\ entries[a].gone <= secs
  /\ entries' = [entries EXCEPT ![a] = NoEntry]
  /\ UNCHANGED <<store, secs, nonces, logins, messageVars, tokens>>

\* A wallet signs the messages its own address was given.
Sign(m) ==
  /\ m \in issued
  /\ signatures' = signatures \cup {[signer |-> m.address, message |-> m]}
  /\ UNCHANGED <<storeVars, secs, nonces, logins, issued, tokens>>

-----------------------------------------------------------------------------
\* POST /api/auth/verify, with any address and any signature.
Verify(l, a, s) ==
  /\ logins[l].step = "idle"
  /\ logins' = [logins EXCEPT ![l].step = "get", ![l].address = a, ![l].now = secs,
                              ![l].signature = s]
  /\ UNCHANGED <<storeVars, secs, nonces, messageVars, tokens>>

MutantTaken(a) == entries
\* What the first command leaves: the memory's one removes the entry.
Taken(a) == IF store = "memory" THEN [entries EXCEPT ![a] = NoEntry] ELSE entries
GetNonce(l) ==
  /\ logins[l].step = "get"
  /\ LET e == entries[logins[l].address]
     IN  logins' = [logins EXCEPT
           ![l].step = IF e = NoEntry THEN "no challenge"
                       ELSE IF store = "redis" THEN "del" ELSE "check",
           ![l].nonce = IF e = NoEntry THEN 0 ELSE e.nonce,
           ![l].exp = IF e = NoEntry THEN 0 ELSE e.exp]
  /\ entries' = Taken(logins[l].address)
  /\ UNCHANGED <<store, secs, nonces, messageVars, tokens>>
\* DEL, whatever the key holds by now.
DeleteNonce(l) ==
  /\ logins[l].step = "del"
  /\ entries' = [entries EXCEPT ![logins[l].address] = NoEntry]
  /\ logins' = [logins EXCEPT ![l].step = "check"]
  /\ UNCHANGED <<store, secs, nonces, messageVars, tokens>>

\* recover_signer, of the message as it would be if it had been issued now: the signer
\* of another message is some other address.
MutantRecovered(l) ==
  logins[l].signature # NoEntry /\ logins[l].signature.signer = logins[l].address
Recovered(l) ==
  /\ logins[l].signature # NoEntry
  /\ logins[l].signature.signer = logins[l].address
  /\ logins[l].signature.message =
       [address |-> logins[l].address, nonce |-> logins[l].nonce, at |-> logins[l].now]
CheckSigner(l) ==
  /\ logins[l].step = "check"
  /\ LET r == logins[l]
         ok == r.exp >= r.now /\ Recovered(l)
     IN  /\ logins' = [logins EXCEPT ![l].step = IF r.exp < r.now THEN "expired"
                                                   ELSE IF ok THEN "done" ELSE "not signed"]
         /\ tokens' = IF ok
                      THEN tokens \cup {[login |-> l, address |-> r.address,
                                         nonce |-> r.nonce, iat |-> r.now]}
                      ELSE tokens
  /\ UNCHANGED <<storeVars, secs, nonces, messageVars>>

OneSecond ==
  /\ secs < MaxSecs /\ secs' = secs + 1
  /\ UNCHANGED <<storeVars, nonces, logins, messageVars, tokens>>

SignInNext ==
  \/ \E l \in Login :
       \/ SetNonce(l) \/ GetNonce(l) \/ DeleteNonce(l) \/ CheckSigner(l)
       \/ \E a \in Signer : Challenge(l, a) \/ \E s \in signatures \cup {NoEntry} : Verify(l, a, s)
  \/ \E a \in Signer : RedisExpires(a)
  \/ \E m \in issued : Sign(m)
  \/ OneSecond
SignInSpec == SignInInit /\ [][SignInNext]_signInVars

-----------------------------------------------------------------------------
\* A token is for an address whose wallet signed the message of a challenge that was
\* issued for that address, with that nonce, not longer ago than a challenge lasts;
\* whoever sends what, and however the requests of one address overlap.
TokenIsSigned ==
  \A t \in tokens : \E s \in signatures :
    /\ s.signer = t.address /\ s.message \in issued
    /\ s.message.address = t.address /\ s.message.nonce = t.nonce
    /\ t.iat <= s.message.at + NonceTtl

\* A nonce in memory gives one token.  (Of two requests at once, both may read a nonce
\* in Redis before either deletes it.)
OneTokenPerNonce ==
  store = "memory" => \A t, u \in tokens : t.nonce = u.nonce => t = u

\* No token without a signature of its challenge, and in memory no second one.
TokensAreEarned == TokenIsSigned /\ OneTokenPerNonce

\* auth.rs:227: "approximate; we only need the nonce to match".  A verification is not
\* refused for its signature if that is the address', of the message with the nonce.
SignedChallengeAccepted ==
  \A l \in Login :
    logins[l].step = "not signed" =>
      ~(/\ logins[l].signature # NoEntry
        /\ logins[l].signature.signer = logins[l].address
        /\ logins[l].signature.message.nonce = logins[l].nonce)
=============================================================================
