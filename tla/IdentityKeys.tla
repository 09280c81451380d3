----------------------------- MODULE IdentityKeys -----------------------------
(***************************************************************************)
(* Where the identity key of a user lives: the private half in the           *)
(* browser's storage (crypto/identity.ts, storage/indexeddb.ts), the public  *)
(* half on the server, written by the steps of the login form (AuthForm.tsx) *)
(* and cleared when a session ends or the page is left.  A step is awaited    *)
(* and may fail; a clearing runs on beside the page.  A key pair is a         *)
(* number.                                                                  *)
(***************************************************************************)
EXTENDS Naturals

CONSTANTS Accounts, Nobody,
          MaxKeys        \* bound: key pairs generated

ASSUME IdentityAssumption == Nobody \notin Accounts /\ MaxKeys \in Nat

VARIABLES indexedDBWorks,  \* openDB's result, which is remembered
          keyStore,        \* the key in IndexedDB
          localCopy,       \* the key in localStorage
          clearing,        \* clearAllKeys is on its way
          loggedIn,        \* the user of the session
          form,            \* the step the login form is at
          publicKeys,      \* server: the key of every account
          keysMade,
          mishaps          \* what may set the two halves apart

browser == <<keyStore, localCopy, clearing>>
identityVars == <<indexedDBWorks, browser, loggedIn, form, publicKeys,
                  keysMade, mishaps>>

NoKeyPair == 0
KeyPairs == 0 .. MaxKeys
Idle == [step |-> "idle", user |-> Nobody, key |-> NoKeyPair]
Form == [step : {"idle", "login", "update", "register"},
         user : Accounts \cup {Nobody}, key : KeyPairs]
Mishaps == {"registration failed", "another account", "update failed",
            "read before clearing", "local copy", "other device"}

IdentityInit ==
    /\ indexedDBWorks \in BOOLEAN
    /\ keyStore = NoKeyPair /\ localCopy = NoKeyPair /\ clearing = FALSE
    /\ loggedIn = Nobody
    /\ form = Idle
    /\ publicKeys = [u \in Accounts |-> NoKeyPair]
    /\ keysMade = 0
    /\ mishaps = {}

-----------------------------------------------------------------------------
(* The storage.                                                            *)

\* loadKey, saveKey and clearAllKeys of the database, if it can be opened.
LoadedKey == IF indexedDBWorks THEN keyStore ELSE NoKeyPair
SaveKey(k) == keyStore' = IF indexedDBWorks THEN k ELSE keyStore
ClearStore == keyStore' = IF indexedDBWorks THEN NoKeyPair ELSE keyStore

\* loadFromIndexedDB: the database first, then the local copy.
StoredKey == IF LoadedKey # NoKeyPair THEN LoadedKey ELSE localCopy

\* saveToIndexedDB.
Save(k) ==
    /\ SaveKey(k)
    /\ localCopy' = IF indexedDBWorks THEN localCopy ELSE k
    /\ UNCHANGED clearing

NewKeyPair == keysMade < MaxKeys /\ keysMade' = keysMade + 1

Registered(u) == publicKeys[u] # NoKeyPair

-----------------------------------------------------------------------------
(* The form.                                                               *)

\* Registering generates and saves a key first; it may replace one.
StartRegister == \E u \in Accounts :
    /\ loggedIn = Nobody /\ form = Idle /\ NewKeyPair
    /\ Save(keysMade + 1)
    /\ form' = [step |-> "register", user |-> u, key |-> keysMade + 1]
    /\ mishaps' = mishaps \cup
          (IF \E v \in Accounts : Registered(v) THEN {"another account"} ELSE {})
    /\ UNCHANGED <<indexedDBWorks, loggedIn, publicKeys>>

RegisterAnswered ==
    /\ form.step = "register"
    /\ \/ /\ ~Registered(form.user)
          /\ publicKeys' = [publicKeys EXCEPT ![form.user] = form.key]
          /\ UNCHANGED mishaps
       \/ /\ UNCHANGED publicKeys
          /\ mishaps' = mishaps \cup {"registration failed"}
    /\ form' = Idle
    /\ UNCHANGED <<indexedDBWorks, browser, loggedIn, keysMade>>

StartLogin == \E u \in Accounts :
    /\ loggedIn = Nobody /\ form = Idle /\ Registered(u)
    /\ form' = [step |-> "login", user |-> u, key |-> NoKeyPair]
    /\ UNCHANGED <<indexedDBWorks, browser, loggedIn, publicKeys, keysMade,
                   mishaps>>

\* The server has accepted the login and there is a key on this device.
LoginWithKey ==
    /\ form.step = "login" /\ StoredKey # NoKeyPair
    /\ loggedIn' = form.user
    /\ form' = Idle
    /\ mishaps' = mishaps \cup
          (IF clearing THEN {"read before clearing"} ELSE {}) \cup
          (IF localCopy = StoredKey THEN {"local copy"} ELSE {})
    /\ UNCHANGED <<indexedDBWorks, browser, publicKeys, keysMade>>

LoginWithoutKey ==
    /\ form.step = "login" /\ StoredKey = NoKeyPair /\ NewKeyPair
    /\ Save(keysMade + 1)
    /\ form' = [form EXCEPT !.step = "update", !.key = keysMade + 1]
    /\ UNCHANGED <<indexedDBWorks, loggedIn, publicKeys, mishaps>>

\* The new key is kept and its public half goes nowhere.
KeepKeyOnly ==
    /\ form.step = "update"
    /\ loggedIn' = form.user
    /\ form' = Idle
    /\ UNCHANGED <<indexedDBWorks, browser, publicKeys, keysMade, mishaps>>

\* updatePublicKey, then onAuthenticated.
UpdatePublicKey ==
    /\ form.step = "update"
    /\ publicKeys' = [publicKeys EXCEPT ![form.user] = form.key]
    /\ loggedIn' = form.user
    /\ form' = Idle
    /\ UNCHANGED <<indexedDBWorks, browser, keysMade, mishaps>>

\* The form reports it and stays; the key stays in the storage.
UpdateFails ==
    /\ form.step = "update"
    /\ \/ UNCHANGED publicKeys
       \/ publicKeys' = [publicKeys EXCEPT ![form.user] = form.key]
    /\ form' = Idle
    /\ mishaps' = mishaps \cup {"update failed"}
    /\ UNCHANGED <<indexedDBWorks, browser, loggedIn, keysMade>>

-----------------------------------------------------------------------------
(* Sessions end.                                                           *)

\* handleLogout and handleSessionExpired: the state is reset at once, the
\* storage is cleared in the background.
SessionEnds ==
    /\ loggedIn # Nobody
    /\ loggedIn' = Nobody
    /\ clearing' = TRUE
    /\ UNCHANGED <<indexedDBWorks, keyStore, localCopy, form, publicKeys,
                   keysMade, mishaps>>

\* clearSessionStorageSideEffects: the identity key goes from the database only.
ClearAllKeys ==
    /\ clearing
    /\ clearing' = FALSE
    /\ ClearStore
    /\ mishaps' = IF localCopy = NoKeyPair THEN {} ELSE mishaps
    /\ UNCHANGED <<indexedDBWorks, localCopy, loggedIn, form, publicKeys,
                   keysMade>>

\* The page is loaded anew: beforeunload clears the keys if there is time; the
\* cookie brings the session back, or the refused refresh clears the storage.
Reload ==
    /\ ClearStore \/ UNCHANGED keyStore
    /\ \/ loggedIn # Nobody /\ UNCHANGED loggedIn /\ clearing' = FALSE
       \/ loggedIn' = Nobody /\ clearing' = TRUE
    /\ form' = Idle
    /\ mishaps' = IF form.step = "register" THEN mishaps \cup {"registration failed"}
                  ELSE IF form.step = "update" THEN mishaps \cup {"update failed"}
                  ELSE mishaps
    /\ UNCHANGED <<indexedDBWorks, localCopy, publicKeys, keysMade>>

\* The user logs in on a device that has no key.
OtherDevice == \E u \in Accounts :
    /\ Registered(u) /\ NewKeyPair
    /\ publicKeys' = [publicKeys EXCEPT ![u] = keysMade + 1]
    /\ mishaps' = mishaps \cup {"other device"}
    /\ UNCHANGED <<indexedDBWorks, browser, loggedIn, form>>

IdentityNext ==
    \/ StartRegister \/ RegisterAnswered
    \/ StartLogin \/ LoginWithKey \/ LoginWithoutKey
    \/ UpdatePublicKey \/ UpdateFails
    \/ SessionEnds \/ ClearAllKeys \/ Reload \/ OtherDevice

IdentitySpec == IdentityInit /\ [][IdentityNext]_identityVars

-----------------------------------------------------------------------------
\* The type invariant: the storage of the browser, the form and the public keys.
IdentityTypeOK ==
    /\ indexedDBWorks \in BOOLEAN /\ clearing \in BOOLEAN
    /\ keyStore \in 0 .. keysMade /\ localCopy \in 0 .. keysMade
    /\ loggedIn \in Accounts \cup {Nobody}
    /\ form \in Form
    /\ publicKeys \in [Accounts -> 0 .. keysMade] /\ keysMade \in KeyPairs
    /\ mishaps \subseteq Mishaps

\* The key a session signs with is the one the server shows to others, from
\* one user of the browser to the next, unless a step failed, another account
\* was registered, the key was read while the storage was being cleared or from
\* the copy that is never cleared, or another device took over.
KeysAgree ==
    (loggedIn # Nobody /\ StoredKey # NoKeyPair /\ mishaps = {})
        => StoredKey = publicKeys[loggedIn]
=============================================================================
