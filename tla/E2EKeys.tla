------------------------------ MODULE E2EKeys ------------------------------
(***************************************************************************)
(* The key pair of the chat clients on one machine or another: the two     *)
(* files of service/cryptoService.go, which all accounts of a machine      *)
(* share, and the bundle that the server keeps for each account            *)
(* (client/http.go, service/auth.go).                                      *)
(*                                                                         *)
(* A file is truncated in one step and written in another; a client may be *)
(* killed, or meet an error, between any two steps.  Cryptography is not   *)
(* modelled: a key stands for both halves, and a bundle for what the right *)
(* password makes of it.                                                   *)
(***************************************************************************)
EXTENDS Integers, FiniteSets

CONSTANTS
    Account,    \* usernames, which nobody deletes
    Device,     \* home directories
    Client,     \* processes
    deviceOf,   \* of a client
    NoOne,      \* no account
    NoKey,      \* no file, or a NULL bundle
    Torn,       \* a file that holds no whole key
    MaxKeys     \* bound: key pairs generated

ASSUME KeysAssumption ==
    /\ deviceOf \in [Client -> Device] /\ MaxKeys \in Nat
    /\ NoOne \notin Account /\ NoKey \notin Int /\ Torn \notin Int /\ NoKey # Torn

VARIABLES
    disk,       \* [device][file]
    registered, \* accounts with a row in users
    bundle,     \* the e2e columns of each row
    generated,  \* how many key pairs have been generated
    client,     \* where each client is, the account it acts for, the key it holds
    crowded     \* history: devices on which two clients were writing keys at once

keysVars   == <<disk, registered, bundle, generated, client, crowded>>
serverKeys == <<registered, bundle>>

File == {"private", "public"}
Key  == 1 .. MaxKeys

\* Files in the order they are written in.  Mutant: the public key first.
PublicFirst == <<"public", "private">>
WritingOrder == <<"private", "public">>

\* open and fill write a file; post and answer are a request's two ends.
KeyStep == {"idle", "generate", "open1", "fill1", "open2", "fill2", "post", "store", "answer"}
FileOf(s) == WritingOrder[IF s \in {"open1", "fill1"} THEN 1 ELSE 2]
WritingKeys == {"generate", "open1", "fill1", "open2", "fill2"}

At(s, u, k) == [step |-> s, asker |-> u, held |-> k]
Nowhere == At("idle", NoOne, NoKey)

KeysInit ==
    /\ disk = [d \in Device |-> [f \in File |-> NoKey]]
    /\ registered = {} /\ bundle = [u \in Account |-> NoKey] /\ generated = 0
    /\ client = [c \in Client |-> Nowhere]
    /\ crowded = {}

-----------------------------------------------------------------------------
Private(c) == disk[deviceOf[c]]["private"]
Goes(c, at) == client' = [client EXCEPT ![c] = at]
Proceeds(c, s) == client' = [client EXCEPT ![c].step = s]

\* c is about to write keys.
Crowd(c) ==
    crowded' = IF \E x \in Client \ {c} :
                        deviceOf[x] = deviceOf[c] /\ client[x].step \in WritingKeys
               THEN crowded \cup {deviceOf[c]} ELSE crowded

(* InitClientE2EKeys with a private key there, another account's, or this   *)
(* one's after a failed attempt: it is not uploaded.  One that cannot be    *)
(* read is an error.  Mutant: it is uploaded.                               *)
UploadsLocal(c) == Private(c)
UploadOfLocal(c) == NoKey
RegisterWithLocalKey(c, u) ==
    /\ client[c] = Nowhere /\ Private(c) \in Key
    /\ Goes(c, At("post", u, UploadOfLocal(c)))
    /\ UNCHANGED <<disk, serverKeys, generated, crowded>>

RegisterAnew(c, u) ==
    /\ client[c] = Nowhere /\ Private(c) = NoKey
    /\ Goes(c, At("generate", u, NoKey)) /\ Crowd(c)
    /\ UNCHANGED <<disk, serverKeys, generated>>

Generate(c) ==
    /\ client[c].step = "generate" /\ generated < MaxKeys
    /\ generated' = generated + 1
    /\ Goes(c, At("open1", client[c].asker, generated'))
    /\ UNCHANGED <<disk, serverKeys, crowded>>

(* writePEM, of both files. *)
OpenFile(c) ==
    /\ client[c].step \in {"open1", "open2"}
    /\ disk' = [disk EXCEPT ![deviceOf[c]][FileOf(client[c].step)] = Torn]
    /\ Proceeds(c, IF client[c].step = "open1" THEN "fill1" ELSE "fill2")
    /\ UNCHANGED <<serverKeys, generated, crowded>>

\* A key that was restored is the asker's bundle already, and needs no request.
FillFile(c) ==
    LET at == client[c] IN
    /\ at.step \in {"fill1", "fill2"}
    /\ disk' = [disk EXCEPT ![deviceOf[c]][FileOf(at.step)] = at.held]
    /\ Goes(c, IF at.step = "fill1" THEN [at EXCEPT !.step = "open2"]
               ELSE IF at.held = bundle[at.asker] THEN Nowhere
               ELSE [at EXCEPT !.step = "post"])
    /\ UNCHANGED <<serverKeys, generated, crowded>>

(* AuthService.Register: CreateUser, if the name is free, and               *)
(* SetE2EKeyBundle in a statement of its own.                               *)
CreatesUser(c) ==
    /\ client[c].step = "post" /\ client[c].asker \notin registered
    /\ registered' = registered \cup {client[c].asker}
    /\ IF client[c].held = NoKey THEN Goes(c, Nowhere) ELSE Proceeds(c, "store")
    /\ UNCHANGED <<disk, bundle, generated, crowded>>

StoresBundle(c) ==
    /\ client[c].step = "store"
    /\ bundle' = [bundle EXCEPT ![client[c].asker] = client[c].held]
    /\ Goes(c, Nowhere)
    /\ UNCHANGED <<disk, registered, generated, crowded>>

(* AuthService.Login, with the right password. *)
LogsIn(c, u) ==
    /\ client[c] = Nowhere /\ u \in registered
    /\ Goes(c, At("answer", u, bundle[u]))
    /\ UNCHANGED <<disk, serverKeys, generated, crowded>>

(* restoreE2EIfNeeded.  Mutant: the bundle replaces what is there.          *)
RestoreAlways(c) == client[c].held # NoKey
RestoreNeeded(c) == Private(c) = NoKey /\ client[c].held # NoKey
RestoresKey(c) ==
    /\ client[c].step = "answer" /\ RestoreNeeded(c)
    /\ Proceeds(c, "open1") /\ Crowd(c)
    /\ UNCHANGED <<disk, serverKeys, generated>>

KeepsKey(c) ==
    /\ client[c].step = "answer" /\ ~RestoreNeeded(c)
    /\ Goes(c, Nowhere)
    /\ UNCHANGED <<disk, serverKeys, generated, crowded>>

(* Killed; an error of a file, the name taken, a password that is too       *)
(* short, no answer.  The request's context ends with its client.           *)
GivesUp(c) ==
    /\ client[c] # Nowhere /\ Goes(c, Nowhere)
    /\ UNCHANGED <<disk, serverKeys, generated, crowded>>

-----------------------------------------------------------------------------
KeysNext ==
    \E c \in Client :
        \/ \E u \in Account : RegisterWithLocalKey(c, u) \/ RegisterAnew(c, u) \/ LogsIn(c, u)
        \/ Generate(c) \/ OpenFile(c) \/ FillFile(c)
        \/ CreatesUser(c) \/ StoresBundle(c) \/ RestoresKey(c) \/ KeepsKey(c) \/ GivesUp(c)

KeysSpec == KeysInit /\ [][KeysNext]_keysVars

-----------------------------------------------------------------------------
(* Properties *)

(* The types of files, bundles and clients. *)
KeysTypeOK ==
    /\ disk \in [Device -> [File -> Key \cup {NoKey, Torn}]]
    /\ registered \subseteq Account /\ bundle \in [Account -> Key \cup {NoKey}]
    /\ generated \in 0 .. MaxKeys
    /\ client \in [Client -> [step : KeyStep, asker : Account \cup {NoOne},
                              held : Key \cup {NoKey}]]
    /\ crowded \subseteq Device

(* The server never holds one key pair for two accounts, although all       *)
(* accounts of a machine use one file: its key is uploaded by the           *)
(* registration that made it, and by no other (InitClientE2EKeys).          *)
KeyOfOneAccount ==
    \A u, v \in Account : bundle[u] # NoKey /\ bundle[u] = bundle[v] => u = v

(* A public key on disk is that of the private key beside it, wherever a    *)
(* client was killed, if no two ever wrote keys on the machine at once.     *)
PairMatches ==
    \A d \in Device \ crowded :
        disk[d]["public"] \in Key => disk[d]["public"] = disk[d]["private"]

(* A private key on disk is never lost to another one: it may be the only   *)
(* copy, if its registration failed (InitClientE2EKeys, restoreE2EIfNeeded).*)
PrivateKeyStays ==
    [][\A d \in Device \ crowded' :
          disk[d]["private"] \in Key => disk'[d]["private"] = disk[d]["private"]]_keysVars

=============================================================================
