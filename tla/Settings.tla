------------------------------- MODULE Settings -------------------------------
(***************************************************************************)
(* The key and the sender that e-mails of the platform leave with: table   *)
(* platform_settings over the environment, the settings pages that load    *)
(* and save them, and the e-mails that EmailService sends at once, like    *)
(* the one that welcomes a reader.                                         *)
(*                                                                         *)
(* Every statement is awaited on its own.  A page asks once when it opens  *)
(* and again after each save; the two may overlap.                         *)
(***************************************************************************)
EXTENDS Naturals

CONSTANTS
    Keys, Addresses,       \* that somebody may type
    EnvKey, EnvAddress,    \* of the environment; the example's key is Unset
    Empty, Unset,          \* a field left empty, a row that is not there
    Pages,                 \* open settings pages
    Senders,               \* senders of e-mails that leave at once, one after another
    MaxSaves               \* bound: how often somebody saves

ASSUME ValuesAssumption ==
    /\ Empty \notin Keys \cup Addresses \cup {Unset} /\ Unset \notin Keys \cup Addresses
    /\ Empty \notin {EnvKey, EnvAddress} /\ EnvAddress # Unset
ASSUME SavesAssumption == MaxSaves \in Nat

VARIABLES
    stored,     \* table platform_settings
    client,     \* key of the service's Resend client
    asks,       \* how far the load and the save of each page are
    field,      \* the sender in each page's form
    shown,      \* what each page shows, and for the properties what it should
    mail,       \* how far the latest e-mail of each sender is
    saves       \* how often somebody saved

settings == <<stored, client, asks, field, shown, mail, saves>>

Calls == {"load", "save"}
Resting == [at |-> "idle"]

SettingsInit ==
    /\ stored \in [key: Keys \cup {Unset}, from: Addresses \cup {Unset}]
    /\ client = Unset
    /\ asks = [p \in Pages |-> [c \in Calls |-> Resting]]
    /\ field = [p \in Pages |-> Empty]
    /\ shown = [p \in Pages |-> Resting]
    /\ mail = [m \in Senders |-> Resting]
    /\ saves = 0

-----------------------------------------------------------------------------
(* Slips a maintainer could make below, to see that the properties notice. *)

MutWrittenEvenEmpty(value, typed) == typed
MutClientKept(key) == IF client # Unset THEN client ELSE key

-----------------------------------------------------------------------------
(* SettingsService.                                                        *)

getResendApiKey == IF stored.key \in {Unset, Empty} THEN EnvKey ELSE stored.key
getEmailFrom == IF stored.from = Unset THEN EnvAddress ELSE stored.from

\* What a row becomes; an empty field changes nothing.
Written(value, typed) == IF typed = Empty THEN value ELSE typed

-----------------------------------------------------------------------------
(* Whoever writes tears what all others are reading or showing, only for   *)
(* the properties.                                                         *)

TornAsks(p, c) ==
    [q \in Pages |-> [d \in Calls |->
        IF <<p, c>> = <<q, d>> \/ asks[q][d].at \in {"idle", "done"}
        THEN asks[q][d] ELSE [asks[q][d] EXCEPT !.torn = TRUE]]]

Torn(records) ==
    [r \in DOMAIN records |->
        IF records[r].at = "idle" THEN records[r] ELSE [records[r] EXCEPT !.torn = TRUE]]

\* One upsert of a save, and what the save does next.
set(p, row, next) ==
    LET typed == asks[p]["save"].typed[row]
    IN  /\ stored' = [stored EXCEPT ![row] = Written(@, typed)]
        /\ asks' = [(IF typed = Empty THEN asks ELSE TornAsks(p, "save"))
                       EXCEPT ![p]["save"].at = next]
        /\ mail' = IF typed = Empty THEN mail ELSE Torn(mail)
        /\ shown' = IF typed = Empty THEN shown ELSE Torn(shown)
        /\ UNCHANGED <<client, field, saves>>

-----------------------------------------------------------------------------
(* The settings page, and the requests it makes.                           *)

Nothing == [key |-> Empty, from |-> Empty]

\* What the page should show in the end, if nobody else saves meanwhile.
Due(typed) ==
    [key |-> IF typed.key = Empty THEN getResendApiKey ELSE typed.key,
     from |-> IF typed.from = Empty THEN getEmailFrom ELSE typed.from]

Call(at, typed) ==
    [at |-> at, typed |-> typed, read |-> Nothing, due |-> Due(typed), torn |-> FALSE]

\* When the page opens.
loadEmailSettings(p) ==
    /\ asks[p]["load"] = Resting
    /\ asks' = [asks EXCEPT ![p]["load"] = Call("testKey", Nothing)]
    /\ UNCHANGED <<stored, client, field, shown, mail, saves>>

\* The button is disabled while a save is under way, not while the page loads.
handleSaveEmailSettings(p, key, from) ==
    /\ asks[p]["load"] # Resting /\ asks[p]["save"] = Resting
    /\ saves < MaxSaves
    /\ saves' = saves + 1
    /\ field' = [field EXCEPT ![p] = from]
    /\ asks' = [asks EXCEPT ![p]["save"] = Call("setKey", [key |-> key, from |-> from])]
    /\ UNCHANGED <<stored, client, shown, mail>>

updateSettings(p) ==
    \/ asks[p]["save"].at = "setKey" /\ set(p, "key", "setFrom")
    \/ asks[p]["save"].at = "setFrom" /\ set(p, "from", "testKey")

testEmail(p, c) ==
    /\ \/ /\ asks[p][c].at = "testKey"
          /\ asks' = [asks EXCEPT ![p][c].read.key = getResendApiKey, ![p][c].at = "testFrom"]
       \/ /\ asks[p][c].at = "testFrom"
          /\ asks' = [asks EXCEPT ![p][c].read.from = getEmailFrom, ![p][c].at = "answer"]
    /\ UNCHANGED <<stored, client, field, shown, mail, saves>>

Ended(c) == IF c = "load" THEN [at |-> "done"] ELSE Resting

Show(p, c) ==
    /\ asks[p][c].at = "answer"
    /\ LET call == asks[p][c]
       IN  /\ shown' = [shown EXCEPT ![p] = [at |-> "shown", read |-> call.read,
                                             due |-> call.due, torn |-> call.torn]]
           /\ field' = [field EXCEPT ![p] = call.read.from]
    /\ asks' = [asks EXCEPT ![p][c] = Ended(c)]
    /\ UNCHANGED <<stored, client, mail, saves>>

\* Whatever was written stays written.
Fails(p, c) ==
    /\ asks[p][c].at \notin {"idle", "done"}
    /\ asks' = [asks EXCEPT ![p][c] = Ended(c)]
    /\ UNCHANGED <<stored, client, field, shown, mail, saves>>

-----------------------------------------------------------------------------
(* An e-mail that is sent at once: sendWelcomeEmail, and sendEmail alike.   *)

\* Every e-mail gets a fresh client.
Client(key) == key

\* Without a key there is no e-mail, and nobody hears of it.
getResendClient(m) ==
    /\ mail[m].at # "from"
    /\ LET key == getResendApiKey
       IN  IF key = Unset
           THEN /\ mail' = [mail EXCEPT ![m] = [at |-> "skipped", key |-> Unset, torn |-> FALSE]]
                /\ UNCHANGED client
           ELSE /\ client' = Client(key)
                /\ mail' = [mail EXCEPT ![m] = [at |-> "from", key |-> client', torn |-> FALSE]]
    /\ UNCHANGED <<stored, asks, field, shown, saves>>

\* It leaves, or Resend's error is logged.
sendWelcomeEmail(m) ==
    /\ mail[m].at = "from"
    /\ \E outcome \in {"sent", "failed"} :
          mail' = [mail EXCEPT ![m] = [at |-> outcome, key |-> @.key, from |-> getEmailFrom,
                                       torn |-> @.torn]]
    /\ UNCHANGED <<stored, client, asks, field, shown, saves>>

-----------------------------------------------------------------------------
SettingsNext ==
    \/ \E p \in Pages :
          \/ loadEmailSettings(p)
          \/ \E key \in Keys \cup {Empty}, from \in Addresses \cup {Empty, field[p]} :
                handleSaveEmailSettings(p, key, from)
          \/ updateSettings(p)
          \/ \E c \in Calls : testEmail(p, c) \/ Show(p, c) \/ Fails(p, c)
    \/ \E m \in Senders : getResendClient(m) \/ sendWelcomeEmail(m)

SettingsSpec == SettingsInit /\ [][SettingsNext]_settings

-----------------------------------------------------------------------------
(* What a page shows is what e-mails leave with: as long as nobody saved   *)
(* since either of them began to read, they agree on the key, the sender,  *)
(* and on whether there is a key at all.                                   *)
ShownIsUsed ==
    \A p \in Pages, m \in Senders :
        shown[p].at = "shown" /\ ~ shown[p].torn
            /\ mail[m].at \in {"sent", "skipped"} /\ ~ mail[m].torn
        => /\ mail[m].key = shown[p].read.key
           /\ mail[m].at = "sent" => mail[m].from = shown[p].read.from

(* A save takes effect: unless somebody else saved meanwhile, the page     *)
(* shows what was typed in the end, whatever the environment says, and for *)
(* a field left empty what was there before.                               *)
SaveTakesEffect ==
    \A p \in Pages : shown[p].at = "shown" /\ ~ shown[p].torn => shown[p].read = shown[p].due
=============================================================================
