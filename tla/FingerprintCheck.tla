--------------------------- MODULE FingerprintCheck ---------------------------
(***************************************************************************)
(* The check of a peer's fingerprint in an open chat: ChatWindow.tsx loads   *)
(* it and blocks the chat unless it is the one verified before,              *)
(* FingerprintVerificationModal.tsx loads it once more and saves it as       *)
(* verified (crypto/fingerprint.ts).  The session is enabled by it.  A new    *)
(* access token loads both again, and answers arrive in any order while the   *)
(* peer may publish another key.  A fingerprint is a number.                 *)
(***************************************************************************)
EXTENDS Naturals

CONSTANTS MaxPrints,   \* bound: keys the peer publishes
          MaxLoads     \* bound: requests for its fingerprint

ASSUME FingerprintAssumption == MaxPrints \in Nat \ {0} /\ MaxLoads \in Nat \ {0}

VARIABLES serverPrint,          \* what the server answers
          verifiedPrint,        \* the browser's storage: verified_peers
          printHistory,         \* fingerprint_history: when each was verified
          peerFingerprint,      \* the chat's copy
          fingerprintVerified,  \* isFingerprintVerified enables the session
          chatBlocked,
          chatLoading,          \* isLoadingFingerprint: one flag for all loads
          dialogOpen,
          dialogShows,
          dialogPrint,          \* the dialog's copy
          dialogVerified,       \* the dialog shows it as verified
          verifiedHere,         \* history: verified since the dialog was opened
          loads,                \* answers on their way
          loadsMade

chatCheckVars == <<peerFingerprint, fingerprintVerified, chatBlocked, chatLoading>>
dialogVars == <<dialogOpen, dialogShows, dialogPrint, dialogVerified, verifiedHere>>
storedVars == <<verifiedPrint, printHistory>>
fingerprintVars == <<serverPrint, storedVars, chatCheckVars, dialogVars,
                     loads, loadsMade>>

NoPrint == 0
Prints == 1 .. MaxPrints
Load == [id : 1 .. MaxLoads, by : {"chat", "dialog"}, print : Prints]

IsPeerVerified(print) == print # NoPrint /\ verifiedPrint = print

\* An effect asks for the print; the request may be answered with this one.
NewLoad(n, by) == [id |-> loadsMade + n, by |-> by, print |-> serverPrint]

FingerprintInit ==
    /\ serverPrint = 1
    /\ verifiedPrint \in {NoPrint, 1}
    /\ printHistory = [p \in Prints |-> IF p = verifiedPrint THEN "verified" ELSE "none"]
    /\ peerFingerprint = NoPrint
    /\ fingerprintVerified = FALSE /\ chatBlocked = FALSE /\ chatLoading = TRUE
    /\ dialogOpen = FALSE /\ dialogShows = "loading" /\ dialogPrint = NoPrint
    /\ dialogVerified = FALSE /\ verifiedHere = FALSE
    /\ loads = {[id |-> 1, by |-> "chat", print |-> 1]}
    /\ loadsMade = 1

-----------------------------------------------------------------------------
(* The chat.                                                               *)

\* The input stays blocked once it was.
EnableOnly(verified) ==
    /\ fingerprintVerified' = verified
    /\ chatBlocked' = (chatBlocked \/ ~verified)

Enable(verified) ==
    /\ fingerprintVerified' = verified
    /\ chatBlocked' = ~verified

NoDialog ==
    /\ dialogOpen' = FALSE /\ dialogShows' = "loading" /\ dialogPrint' = NoPrint
    /\ dialogVerified' = FALSE /\ verifiedHere' = FALSE

\* The dialog is mounted and loads; an open one stays as it is.
OpenDialog(rest) ==
    IF dialogOpen
    THEN loads' = rest /\ UNCHANGED <<dialogVars, loadsMade>>
    ELSE /\ dialogOpen' = TRUE
         /\ UNCHANGED <<dialogShows, dialogPrint, dialogVerified, verifiedHere>>
         /\ loads' = rest \cup {NewLoad(1, "dialog")}
         /\ loadsMade' = loadsMade + 1

\* A print that differs leaves the session as it is.
KeptByChat(load) == IsPeerVerified(load.print) \/ fingerprintVerified

AcceptedByChat(load) == IsPeerVerified(load.print)

\* loadFingerprints, when both answers are there: the print is verified or the
\* user is asked.  The branch for a print that has changed and is verified is
\* never taken, the two exclude each other, so the warning is never shown.
ChatLoaded == \E load \in loads :
    /\ load.by = "chat" /\ loadsMade < MaxLoads
    /\ peerFingerprint' = load.print /\ chatLoading' = FALSE
    /\ Enable(AcceptedByChat(load))
    /\ IF IsPeerVerified(load.print)
       THEN loads' = loads \ {load} /\ UNCHANGED <<dialogVars, loadsMade>>
       ELSE OpenDialog(loads \ {load})
    /\ UNCHANGED <<serverPrint, storedVars>>

ChatLoadFails == \E load \in loads :
    /\ load.by = "chat"
    /\ loads' = loads \ {load}
    /\ Enable(FALSE) /\ chatLoading' = FALSE
    /\ UNCHANGED <<serverPrint, storedVars, peerFingerprint, dialogVars, loadsMade>>

\* A blocked chat has a button below the messages at any time, the header has
\* one when nothing is being loaded.
OffersDialog == chatBlocked \/ (~chatLoading /\ fingerprintVerified)

OpenFromChat ==
    /\ OffersDialog /\ ~dialogOpen /\ loadsMade < MaxLoads
    /\ OpenDialog(loads)
    /\ UNCHANGED <<serverPrint, storedVars, chatCheckVars>>

\* onClose asks whether the print the chat knows is verified, not the
\* dialog's; the dialog's requests are answered to nobody.
CloseDialog ==
    /\ dialogOpen /\ NoDialog
    /\ loads' = {load \in loads : load.by = "chat"}
    /\ Enable(IsPeerVerified(peerFingerprint))
    /\ UNCHANGED <<serverPrint, storedVars, peerFingerprint, chatLoading, loadsMade>>

-----------------------------------------------------------------------------
(* The dialog.                                                             *)

DialogLoaded == \E load \in loads :
    /\ load.by = "dialog"
    /\ loads' = loads \ {load}
    /\ dialogPrint' = load.print
    /\ dialogVerified' = IsPeerVerified(load.print)
    /\ dialogShows' = IF dialogShows = "error" THEN "error" ELSE "print"
    /\ UNCHANGED <<serverPrint, storedVars, chatCheckVars, dialogOpen,
                   verifiedHere, loadsMade>>

\* The error stays, whatever else is answered, until the dialog loads again.
DialogLoadFails == \E load \in loads :
    /\ load.by = "dialog"
    /\ loads' = loads \ {load}
    /\ dialogShows' = "error"
    /\ UNCHANGED <<serverPrint, storedVars, chatCheckVars, dialogOpen,
                   dialogPrint, dialogVerified, verifiedHere, loadsMade>>

\* saveVerifiedPeer: the print replaces the one before, whose entry is marked.
SaveVerifiedPeer(print) ==
    /\ verifiedPrint' = print
    /\ printHistory' = [p \in Prints |->
          IF p = print THEN (IF printHistory[p] = "none" THEN "verified" ELSE printHistory[p])
          ELSE IF p = verifiedPrint /\ printHistory[p] = "verified" THEN "changed"
          ELSE printHistory[p]]

\* The button is shown beside a print.
OffersToVerify == dialogOpen /\ dialogShows = "print" /\ ~dialogVerified

Verify ==
    /\ OffersToVerify
    /\ SaveVerifiedPeer(dialogPrint)
    /\ dialogVerified' = TRUE /\ verifiedHere' = TRUE
    /\ Enable(TRUE)
    /\ UNCHANGED <<serverPrint, peerFingerprint, chatLoading, dialogOpen,
                   dialogShows, dialogPrint, loads, loadsMade>>

-----------------------------------------------------------------------------
(* Around them.                                                            *)

\* A new access token: the effects of the chat and of an open dialog run again.
TokenChanges ==
    /\ loadsMade + 2 <= MaxLoads
    /\ loads' = loads \cup {NewLoad(1, "chat")}
                      \cup (IF dialogOpen THEN {NewLoad(2, "dialog")} ELSE {})
    /\ loadsMade' = loadsMade + 2
    /\ chatLoading' = TRUE /\ dialogShows' = "loading"
    /\ UNCHANGED <<serverPrint, storedVars, peerFingerprint, fingerprintVerified,
                   chatBlocked, dialogOpen, dialogPrint, dialogVerified, verifiedHere>>

\* The peer signs in with another device and its public key is replaced.
PeerChangesKey ==
    /\ serverPrint < MaxPrints
    /\ serverPrint' = serverPrint + 1
    /\ UNCHANGED <<storedVars, chatCheckVars, dialogVars, loads, loadsMade>>

\* The chat is closed and opened again.
ReopenChat ==
    /\ loadsMade < MaxLoads
    /\ loads' = {NewLoad(1, "chat")} /\ loadsMade' = loadsMade + 1
    /\ peerFingerprint' = NoPrint /\ chatLoading' = TRUE
    /\ fingerprintVerified' = FALSE /\ chatBlocked' = FALSE
    /\ NoDialog
    /\ UNCHANGED <<serverPrint, storedVars>>

FingerprintNext ==
    \/ ChatLoaded \/ ChatLoadFails \/ OpenFromChat \/ CloseDialog
    \/ DialogLoaded \/ DialogLoadFails \/ Verify
    \/ TokenChanges \/ PeerChangesKey \/ ReopenChat

FingerprintSpec == FingerprintInit /\ [][FingerprintNext]_fingerprintVars

-----------------------------------------------------------------------------
\* The type invariant: a session that is enabled is open to input (the
\* fingerprint state of ChatWindow.tsx).
FingerprintTypeOK ==
    /\ serverPrint \in Prints
    /\ verifiedPrint \in Prints \cup {NoPrint}
    /\ printHistory \in [Prints -> {"none", "verified", "changed"}]
    /\ peerFingerprint \in Prints \cup {NoPrint}
    /\ fingerprintVerified \in BOOLEAN /\ chatBlocked \in BOOLEAN
    /\ chatLoading \in BOOLEAN
    /\ dialogOpen \in BOOLEAN /\ dialogShows \in {"loading", "error", "print"}
    /\ dialogPrint \in Prints \cup {NoPrint}
    /\ dialogVerified \in BOOLEAN /\ verifiedHere \in BOOLEAN
    /\ loads \subseteq Load /\ loadsMade \in 1 .. MaxLoads
    /\ fingerprintVerified => ~chatBlocked

\* A session is enabled only for a print the user has verified: the one in the
\* storage and its history is the one the chat was last told of, or the user
\* verified it in the dialog that is still open, whatever order the answers of
\* chat and dialog come in (ChatWindow.tsx 180-234 and 895-920).  This is what
\* the code does, at the first contact too (ChatWindow.tsx 196-199); README.md:341
\* says otherwise, that the first print is saved automatically (TOFU).
EnabledIsVerified ==
    fingerprintVerified =>
        /\ verifiedPrint # NoPrint /\ printHistory[verifiedPrint] # "none"
        /\ peerFingerprint = verifiedPrint \/ (dialogOpen /\ verifiedHere)
===============================================================================
