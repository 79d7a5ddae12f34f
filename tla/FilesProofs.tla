----------------------------- MODULE FilesProofs -----------------------------
(***************************************************************************)
(* Proofs about what outlives a process: the key pair of a machine's       *)
(* clients (E2EKeys), and the log categories, the schema and the           *)
(* certificate of a server (Startup).                                      *)
(*                                                                         *)
(* Each file is truncated before it is written, and several may be at it.  *)
(* The invariants say what whoever is at one of these steps will find on   *)
(* disk if nobody else has been there, which is what the histories crowded *)
(* and raced tell.                                                         *)
(***************************************************************************)
EXTENDS E2EKeys, Startup, TLAPS

-----------------------------------------------------------------------------
(* Nobody but c has this key, and the server does not have it.              *)
OwnKey(c) ==
    /\ \A u \in Account : bundle[u] # client[c].held
    /\ \A d \in Client \ {c} : client[d].held # client[c].held

Filling == {"open1", "fill1", "open2", "fill2"}

(* Only what was generated is held, and for an account.                     *)
KeysGenerated ==
    /\ \A u \in Account : bundle[u] # NoKey => u \in registered /\ bundle[u] <= generated
    /\ \A c \in Client :
          /\ client[c].held # NoKey => client[c].held <= generated
          /\ client[c].step # "idle" => client[c].asker \in Account
          /\ client[c].step \in Filling \cup {"store"} => client[c].held # NoKey
          /\ client[c].step \in {"idle", "generate"} => client[c].held = NoKey

(* A key is in the hands of the client that generated it, or is the bundle  *)
(* of the account that a client acts for.                                   *)
KeysHeld ==
    \A c \in Client :
        /\ client[c].step = "answer" /\ client[c].held # NoKey =>
              bundle[client[c].asker] = client[c].held
        /\ client[c].step \in Filling => OwnKey(c) \/ bundle[client[c].asker] = client[c].held
        /\ client[c].step \in {"post", "store"} /\ client[c].held # NoKey => OwnKey(c)

(* An account's bundle is stored by the one request that created it.        *)
StoredOnce ==
    \A c \in Client : client[c].step = "store" =>
        /\ client[c].asker \in registered /\ bundle[client[c].asker] = NoKey
        /\ \A d \in Client :
              client[d].step = "store" /\ client[d].asker = client[c].asker => d = c

(* What one client that writes keys on a machine finds there.               *)
DiskOrder ==
    \A d \in Device \ crowded :
        /\ disk[d]["public"] \in Key => disk[d]["public"] = disk[d]["private"]
        /\ \A c \in Client : deviceOf[c] = d /\ client[c].step \in WritingKeys =>
              /\ \A x \in Client : deviceOf[x] = d /\ client[x].step \in WritingKeys => x = c
              /\ client[c].step \in {"generate", "open1"} => disk[d]["private"] = NoKey
              /\ client[c].step = "fill1" => disk[d]["private"] = Torn
              /\ client[c].step \in {"open2", "fill2"} => disk[d]["private"] = client[c].held
              /\ client[c].step = "fill2" => disk[d]["public"] = Torn

KeysInv ==
    KeysTypeOK /\ KeyOfOneAccount /\ KeysGenerated /\ KeysHeld /\ StoredOnce /\ DiskOrder

(* What CreatesUser makes of the client: it is done, or has a bundle to store. *)
LEMMA CreatesUserRow ==
    ASSUME KeysTypeOK, NEW c \in Client, CreatesUser(c)
    PROVE  \E row \in [step : KeyStep, asker : Account \cup {NoOne}, held : Key \cup {NoKey}] :
              /\ client' = [client EXCEPT ![c] = row]
              /\ \/ row.step = "idle" /\ row.held = NoKey
                 \/ /\ row.step = "store" /\ row.asker = client[c].asker
                    /\ row.held = client[c].held /\ row.held # NoKey
<1>1. CASE client[c].held = NoKey
  <2>1. client' = [client EXCEPT ![c] = Nowhere]
    BY <1>1 DEF CreatesUser, Goes
  <2>2. Nowhere \in [step : KeyStep, asker : Account \cup {NoOne}, held : Key \cup {NoKey}]
    BY DEF Nowhere, At, KeyStep
  <2>3. Nowhere.step = "idle" /\ Nowhere.held = NoKey
    BY DEF Nowhere, At
  <2>. QED  BY <2>1, <2>2, <2>3
<1>2. CASE client[c].held # NoKey
  <2>. DEFINE row == [client[c] EXCEPT !.step = "store"]
  <2>1. client' = [client EXCEPT ![c] = row]
    BY <1>2 DEF CreatesUser, Proceeds
  <2>2. row \in [step : KeyStep, asker : Account \cup {NoOne}, held : Key \cup {NoKey}]
    BY DEF KeysTypeOK, KeyStep
  <2>3. row.step = "store" /\ row.asker = client[c].asker /\ row.held = client[c].held
    BY DEF KeysTypeOK
  <2>. QED  BY <1>2, <2>1, <2>2, <2>3
<1>. QED  BY <1>1, <1>2

(* A step keeps the types. *)
LEMMA KeysTypeStep ==
    ASSUME KeysTypeOK, KeysGenerated, [KeysNext]_keysVars
    PROVE  KeysTypeOK'
<1>. USE KeysAssumption DEF KeysTypeOK, KeysGenerated, KeyStep, Key, File,
     FileOf, WritingOrder, Goes, Proceeds, At, Nowhere, Private
<1>1. ASSUME UNCHANGED keysVars
      PROVE  KeysTypeOK'
  BY <1>1 DEF keysVars, serverKeys
<1>2. ASSUME NEW c \in Client, NEW u \in Account, RegisterWithLocalKey(c, u)
      PROVE  KeysTypeOK'
  BY <1>2 DEF RegisterWithLocalKey, UploadOfLocal, keysVars, serverKeys
<1>3. ASSUME NEW c \in Client, NEW u \in Account, RegisterAnew(c, u)
      PROVE  KeysTypeOK'
  BY <1>3 DEF RegisterAnew, Crowd, keysVars, serverKeys
<1>4. ASSUME NEW c \in Client, NEW u \in Account, LogsIn(c, u)
      PROVE  KeysTypeOK'
  BY <1>4 DEF LogsIn, keysVars, serverKeys
<1>5. ASSUME NEW c \in Client, Generate(c)
      PROVE  KeysTypeOK'
  BY <1>5 DEF Generate, keysVars, serverKeys
<1>6. ASSUME NEW c \in Client, OpenFile(c)
      PROVE  KeysTypeOK'
  BY <1>6 DEF OpenFile, keysVars, serverKeys
<1>7. ASSUME NEW c \in Client, FillFile(c)
      PROVE  KeysTypeOK'
  BY <1>7 DEF FillFile, keysVars, serverKeys
<1>8. ASSUME NEW c \in Client, CreatesUser(c)
      PROVE  KeysTypeOK'
  <2>1. /\ client[c].step = "post" /\ registered' = registered \cup {client[c].asker}
        /\ disk' = disk /\ bundle' = bundle /\ generated' = generated /\ crowded' = crowded
        /\ client[c].asker \notin registered
    BY <1>8 DEF CreatesUser
  <2>2. PICK row \in [step : KeyStep, asker : Account \cup {NoOne}, held : Key \cup {NoKey}] :
          /\ client' = [client EXCEPT ![c] = row]
          /\ \/ row.step = "idle" /\ row.held = NoKey
             \/ /\ row.step = "store" /\ row.asker = client[c].asker
                /\ row.held = client[c].held /\ row.held # NoKey
    BY <1>8, CreatesUserRow
  <2>. QED  BY <2>1, <2>2
<1>9. ASSUME NEW c \in Client, StoresBundle(c)
      PROVE  KeysTypeOK'
  BY <1>9 DEF StoresBundle, keysVars, serverKeys
<1>10. ASSUME NEW c \in Client, RestoresKey(c)
      PROVE  KeysTypeOK'
  BY <1>10 DEF RestoresKey, RestoreNeeded, Crowd, keysVars, serverKeys
<1>11. ASSUME NEW c \in Client, KeepsKey(c)
      PROVE  KeysTypeOK'
  BY <1>11 DEF KeepsKey, keysVars, serverKeys
<1>12. ASSUME NEW c \in Client, GivesUp(c)
      PROVE  KeysTypeOK'
  BY <1>12 DEF GivesUp, keysVars, serverKeys
<1>. QED
  BY <1>1, <1>2, <1>3, <1>4, <1>5, <1>6, <1>7, <1>8, <1>9, <1>10, <1>11, <1>12
     DEF KeysNext

(* A step keeps keys among those that were generated. *)
LEMMA KeysGeneratedStep ==
    ASSUME KeysTypeOK, KeysGenerated, StoredOnce, [KeysNext]_keysVars
    PROVE  KeysGenerated'
<1>. USE KeysAssumption DEF KeysTypeOK, KeysGenerated, StoredOnce, KeyStep, Key,
     Filling, Goes, Proceeds, At, Nowhere, Private
<1>1. ASSUME UNCHANGED keysVars
      PROVE  KeysGenerated'
  BY <1>1 DEF keysVars, serverKeys
<1>2. ASSUME NEW c \in Client, NEW u \in Account, RegisterWithLocalKey(c, u)
      PROVE  KeysGenerated'
  BY <1>2 DEF RegisterWithLocalKey, UploadOfLocal, keysVars, serverKeys
<1>3. ASSUME NEW c \in Client, NEW u \in Account, RegisterAnew(c, u)
      PROVE  KeysGenerated'
  BY <1>3 DEF RegisterAnew, Crowd, keysVars, serverKeys
<1>4. ASSUME NEW c \in Client, NEW u \in Account, LogsIn(c, u)
      PROVE  KeysGenerated'
  BY <1>4 DEF LogsIn, keysVars, serverKeys
<1>5. ASSUME NEW c \in Client, Generate(c)
      PROVE  KeysGenerated'
  BY <1>5 DEF Generate, keysVars, serverKeys
<1>6. ASSUME NEW c \in Client, OpenFile(c)
      PROVE  KeysGenerated'
  BY <1>6 DEF OpenFile, keysVars, serverKeys
<1>7. ASSUME NEW c \in Client, FillFile(c)
      PROVE  KeysGenerated'
  BY <1>7 DEF FillFile, keysVars, serverKeys
<1>8. ASSUME NEW c \in Client, CreatesUser(c)
      PROVE  KeysGenerated'
  <2>1. /\ client[c].step = "post" /\ registered' = registered \cup {client[c].asker}
        /\ disk' = disk /\ bundle' = bundle /\ generated' = generated /\ crowded' = crowded
        /\ client[c].asker \notin registered
    BY <1>8 DEF CreatesUser
  <2>2. PICK row \in [step : KeyStep, asker : Account \cup {NoOne}, held : Key \cup {NoKey}] :
          /\ client' = [client EXCEPT ![c] = row]
          /\ \/ row.step = "idle" /\ row.held = NoKey
             \/ /\ row.step = "store" /\ row.asker = client[c].asker
                /\ row.held = client[c].held /\ row.held # NoKey
    BY <1>8, CreatesUserRow
  <2>. QED  BY <2>1, <2>2
<1>9. ASSUME NEW c \in Client, StoresBundle(c)
      PROVE  KeysGenerated'
  BY <1>9 DEF StoresBundle, keysVars, serverKeys
<1>10. ASSUME NEW c \in Client, RestoresKey(c)
      PROVE  KeysGenerated'
  BY <1>10 DEF RestoresKey, RestoreNeeded, Crowd, keysVars, serverKeys
<1>11. ASSUME NEW c \in Client, KeepsKey(c)
      PROVE  KeysGenerated'
  BY <1>11 DEF KeepsKey, keysVars, serverKeys
<1>12. ASSUME NEW c \in Client, GivesUp(c)
      PROVE  KeysGenerated'
  BY <1>12 DEF GivesUp, keysVars, serverKeys
<1>. QED
  BY <1>1, <1>2, <1>3, <1>4, <1>5, <1>6, <1>7, <1>8, <1>9, <1>10, <1>11, <1>12
     DEF KeysNext

(* A step gives no key to a second client or account. *)
LEMMA KeysHeldStep ==
    ASSUME KeysTypeOK, KeysGenerated, KeysHeld, StoredOnce, [KeysNext]_keysVars
    PROVE  KeysHeld'
<1>. USE KeysAssumption DEF KeysTypeOK, KeysGenerated, KeysHeld, StoredOnce,
     OwnKey, KeyStep, Key, Filling, Goes, Proceeds, At, Nowhere, Private
<1>1. ASSUME UNCHANGED keysVars
      PROVE  KeysHeld'
  BY <1>1 DEF keysVars, serverKeys
<1>2. ASSUME NEW c \in Client, NEW u \in Account, RegisterWithLocalKey(c, u)
      PROVE  KeysHeld'
  BY <1>2 DEF RegisterWithLocalKey, UploadOfLocal, keysVars, serverKeys
<1>3. ASSUME NEW c \in Client, NEW u \in Account, RegisterAnew(c, u)
      PROVE  KeysHeld'
  BY <1>3 DEF RegisterAnew, Crowd, keysVars, serverKeys
<1>4. ASSUME NEW c \in Client, NEW u \in Account, LogsIn(c, u)
      PROVE  KeysHeld'
  BY <1>4 DEF LogsIn, keysVars, serverKeys
<1>5. ASSUME NEW c \in Client, Generate(c)
      PROVE  KeysHeld'
  BY <1>5 DEF Generate, keysVars, serverKeys
<1>6. ASSUME NEW c \in Client, OpenFile(c)
      PROVE  KeysHeld'
  BY <1>6 DEF OpenFile, keysVars, serverKeys
<1>7. ASSUME NEW c \in Client, FillFile(c)
      PROVE  KeysHeld'
  BY <1>7 DEF FillFile, keysVars, serverKeys
<1>8. ASSUME NEW c \in Client, CreatesUser(c)
      PROVE  KeysHeld'
  <2>1. /\ client[c].step = "post" /\ registered' = registered \cup {client[c].asker}
        /\ disk' = disk /\ bundle' = bundle /\ generated' = generated /\ crowded' = crowded
        /\ client[c].asker \notin registered
    BY <1>8 DEF CreatesUser
  <2>2. PICK row \in [step : KeyStep, asker : Account \cup {NoOne}, held : Key \cup {NoKey}] :
          /\ client' = [client EXCEPT ![c] = row]
          /\ \/ row.step = "idle" /\ row.held = NoKey
             \/ /\ row.step = "store" /\ row.asker = client[c].asker
                /\ row.held = client[c].held /\ row.held # NoKey
    BY <1>8, CreatesUserRow
  <2>. QED  BY <2>1, <2>2
<1>9. ASSUME NEW c \in Client, StoresBundle(c)
      PROVE  KeysHeld'
  BY <1>9 DEF StoresBundle, keysVars, serverKeys
<1>10. ASSUME NEW c \in Client, RestoresKey(c)
      PROVE  KeysHeld'
  BY <1>10 DEF RestoresKey, RestoreNeeded, Crowd, keysVars, serverKeys
<1>11. ASSUME NEW c \in Client, KeepsKey(c)
      PROVE  KeysHeld'
  BY <1>11 DEF KeepsKey, keysVars, serverKeys
<1>12. ASSUME NEW c \in Client, GivesUp(c)
      PROVE  KeysHeld'
  BY <1>12 DEF GivesUp, keysVars, serverKeys
<1>. QED
  BY <1>1, <1>2, <1>3, <1>4, <1>5, <1>6, <1>7, <1>8, <1>9, <1>10, <1>11, <1>12
     DEF KeysNext

(* A step leaves one request to store an account's bundle. *)
LEMMA StoredOnceStep ==
    ASSUME KeysTypeOK, KeysGenerated, StoredOnce, [KeysNext]_keysVars
    PROVE  StoredOnce'
<1>. USE KeysAssumption DEF KeysTypeOK, KeysGenerated, StoredOnce, KeyStep, Key,
     Filling, Goes, Proceeds, At, Nowhere, Private
<1>1. ASSUME UNCHANGED keysVars
      PROVE  StoredOnce'
  BY <1>1 DEF keysVars, serverKeys
<1>2. ASSUME NEW c \in Client, NEW u \in Account, RegisterWithLocalKey(c, u)
      PROVE  StoredOnce'
  BY <1>2 DEF RegisterWithLocalKey, UploadOfLocal, keysVars, serverKeys
<1>3. ASSUME NEW c \in Client, NEW u \in Account, RegisterAnew(c, u)
      PROVE  StoredOnce'
  BY <1>3 DEF RegisterAnew, Crowd, keysVars, serverKeys
<1>4. ASSUME NEW c \in Client, NEW u \in Account, LogsIn(c, u)
      PROVE  StoredOnce'
  BY <1>4 DEF LogsIn, keysVars, serverKeys
<1>5. ASSUME NEW c \in Client, Generate(c)
      PROVE  StoredOnce'
  BY <1>5 DEF Generate, keysVars, serverKeys
<1>6. ASSUME NEW c \in Client, OpenFile(c)
      PROVE  StoredOnce'
  BY <1>6 DEF OpenFile, keysVars, serverKeys
<1>7. ASSUME NEW c \in Client, FillFile(c)
      PROVE  StoredOnce'
  BY <1>7 DEF FillFile, keysVars, serverKeys
<1>8. ASSUME NEW c \in Client, CreatesUser(c)
      PROVE  StoredOnce'
  <2>1. /\ client[c].step = "post" /\ registered' = registered \cup {client[c].asker}
        /\ disk' = disk /\ bundle' = bundle /\ generated' = generated /\ crowded' = crowded
        /\ client[c].asker \notin registered
    BY <1>8 DEF CreatesUser
  <2>2. PICK row \in [step : KeyStep, asker : Account \cup {NoOne}, held : Key \cup {NoKey}] :
          /\ client' = [client EXCEPT ![c] = row]
          /\ \/ row.step = "idle" /\ row.held = NoKey
             \/ /\ row.step = "store" /\ row.asker = client[c].asker
                /\ row.held = client[c].held /\ row.held # NoKey
    BY <1>8, CreatesUserRow
  <2>. QED  BY <2>1, <2>2
<1>9. ASSUME NEW c \in Client, StoresBundle(c)
      PROVE  StoredOnce'
  BY <1>9 DEF StoresBundle, keysVars, serverKeys
<1>10. ASSUME NEW c \in Client, RestoresKey(c)
      PROVE  StoredOnce'
  BY <1>10 DEF RestoresKey, RestoreNeeded, Crowd, keysVars, serverKeys
<1>11. ASSUME NEW c \in Client, KeepsKey(c)
      PROVE  StoredOnce'
  BY <1>11 DEF KeepsKey, keysVars, serverKeys
<1>12. ASSUME NEW c \in Client, GivesUp(c)
      PROVE  StoredOnce'
  BY <1>12 DEF GivesUp, keysVars, serverKeys
<1>. QED
  BY <1>1, <1>2, <1>3, <1>4, <1>5, <1>6, <1>7, <1>8, <1>9, <1>10, <1>11, <1>12
     DEF KeysNext

(* A bundle is stored with a key that no other account has. *)
LEMMA KeyOfOneAccountStep ==
    ASSUME KeysTypeOK, KeysHeld, KeysGenerated, KeyOfOneAccount, [KeysNext]_keysVars
    PROVE  KeyOfOneAccount'
<1>. USE KeysAssumption DEF KeysTypeOK, KeysHeld, KeysGenerated,
     KeyOfOneAccount, OwnKey, KeyStep, Key, Goes, Proceeds, At, Nowhere, Private
<1>1. ASSUME UNCHANGED keysVars
      PROVE  KeyOfOneAccount'
  BY <1>1 DEF keysVars, serverKeys
<1>2. ASSUME NEW c \in Client, NEW u \in Account, RegisterWithLocalKey(c, u)
      PROVE  KeyOfOneAccount'
  BY <1>2 DEF RegisterWithLocalKey, UploadOfLocal, keysVars, serverKeys
<1>3. ASSUME NEW c \in Client, NEW u \in Account, RegisterAnew(c, u)
      PROVE  KeyOfOneAccount'
  BY <1>3 DEF RegisterAnew, Crowd, keysVars, serverKeys
<1>4. ASSUME NEW c \in Client, NEW u \in Account, LogsIn(c, u)
      PROVE  KeyOfOneAccount'
  BY <1>4 DEF LogsIn, keysVars, serverKeys
<1>5. ASSUME NEW c \in Client, Generate(c)
      PROVE  KeyOfOneAccount'
  BY <1>5 DEF Generate, keysVars, serverKeys
<1>6. ASSUME NEW c \in Client, OpenFile(c)
      PROVE  KeyOfOneAccount'
  BY <1>6 DEF OpenFile, keysVars, serverKeys
<1>7. ASSUME NEW c \in Client, FillFile(c)
      PROVE  KeyOfOneAccount'
  BY <1>7 DEF FillFile, keysVars, serverKeys
<1>8. ASSUME NEW c \in Client, CreatesUser(c)
      PROVE  KeyOfOneAccount'
  <2>1. /\ client[c].step = "post" /\ registered' = registered \cup {client[c].asker}
        /\ disk' = disk /\ bundle' = bundle /\ generated' = generated /\ crowded' = crowded
        /\ client[c].asker \notin registered
    BY <1>8 DEF CreatesUser
  <2>2. PICK row \in [step : KeyStep, asker : Account \cup {NoOne}, held : Key \cup {NoKey}] :
          /\ client' = [client EXCEPT ![c] = row]
          /\ \/ row.step = "idle" /\ row.held = NoKey
             \/ /\ row.step = "store" /\ row.asker = client[c].asker
                /\ row.held = client[c].held /\ row.held # NoKey
    BY <1>8, CreatesUserRow
  <2>. QED  BY <2>1, <2>2
<1>9. ASSUME NEW c \in Client, StoresBundle(c)
      PROVE  KeyOfOneAccount'
  BY <1>9 DEF StoresBundle, keysVars, serverKeys
<1>10. ASSUME NEW c \in Client, RestoresKey(c)
      PROVE  KeyOfOneAccount'
  BY <1>10 DEF RestoresKey, RestoreNeeded, Crowd, keysVars, serverKeys
<1>11. ASSUME NEW c \in Client, KeepsKey(c)
      PROVE  KeyOfOneAccount'
  BY <1>11 DEF KeepsKey, keysVars, serverKeys
<1>12. ASSUME NEW c \in Client, GivesUp(c)
      PROVE  KeyOfOneAccount'
  BY <1>12 DEF GivesUp, keysVars, serverKeys
<1>. QED
  BY <1>1, <1>2, <1>3, <1>4, <1>5, <1>6, <1>7, <1>8, <1>9, <1>10, <1>11, <1>12
     DEF KeysNext

(* A step writes the files in their order. *)
LEMMA DiskOrderStep ==
    ASSUME KeysTypeOK, KeysGenerated, DiskOrder, [KeysNext]_keysVars
    PROVE  DiskOrder'
<1>. USE KeysAssumption DEF KeysTypeOK, KeysGenerated, DiskOrder, KeyStep, Key,
     Filling, WritingKeys, File, FileOf, WritingOrder, Goes, Proceeds, At,
     Nowhere, Private
<1>1. ASSUME UNCHANGED keysVars
      PROVE  DiskOrder'
  BY <1>1 DEF keysVars, serverKeys
<1>2. ASSUME NEW c \in Client, NEW u \in Account, RegisterWithLocalKey(c, u)
      PROVE  DiskOrder'
  BY <1>2 DEF RegisterWithLocalKey, UploadOfLocal, keysVars, serverKeys
<1>3. ASSUME NEW c \in Client, NEW u \in Account, RegisterAnew(c, u)
      PROVE  DiskOrder'
  BY <1>3 DEF RegisterAnew, Crowd, keysVars, serverKeys
<1>4. ASSUME NEW c \in Client, NEW u \in Account, LogsIn(c, u)
      PROVE  DiskOrder'
  BY <1>4 DEF LogsIn, keysVars, serverKeys
<1>5. ASSUME NEW c \in Client, Generate(c)
      PROVE  DiskOrder'
  BY <1>5 DEF Generate, keysVars, serverKeys
<1>6. ASSUME NEW c \in Client, OpenFile(c)
      PROVE  DiskOrder'
  BY <1>6 DEF OpenFile, keysVars, serverKeys
<1>7. ASSUME NEW c \in Client, FillFile(c)
      PROVE  DiskOrder'
  BY <1>7 DEF FillFile, keysVars, serverKeys
<1>8. ASSUME NEW c \in Client, CreatesUser(c)
      PROVE  DiskOrder'
  <2>1. /\ client[c].step = "post" /\ registered' = registered \cup {client[c].asker}
        /\ disk' = disk /\ bundle' = bundle /\ generated' = generated /\ crowded' = crowded
        /\ client[c].asker \notin registered
    BY <1>8 DEF CreatesUser
  <2>2. PICK row \in [step : KeyStep, asker : Account \cup {NoOne}, held : Key \cup {NoKey}] :
          /\ client' = [client EXCEPT ![c] = row]
          /\ \/ row.step = "idle" /\ row.held = NoKey
             \/ /\ row.step = "store" /\ row.asker = client[c].asker
                /\ row.held = client[c].held /\ row.held # NoKey
    BY <1>8, CreatesUserRow
  <2>. QED  BY <2>1, <2>2
<1>9. ASSUME NEW c \in Client, StoresBundle(c)
      PROVE  DiskOrder'
  BY <1>9 DEF StoresBundle, keysVars, serverKeys
<1>10. ASSUME NEW c \in Client, RestoresKey(c)
      PROVE  DiskOrder'
  BY <1>10 DEF RestoresKey, RestoreNeeded, Crowd, keysVars, serverKeys
<1>11. ASSUME NEW c \in Client, KeepsKey(c)
      PROVE  DiskOrder'
  BY <1>11 DEF KeepsKey, keysVars, serverKeys
<1>12. ASSUME NEW c \in Client, GivesUp(c)
      PROVE  DiskOrder'
  BY <1>12 DEF GivesUp, keysVars, serverKeys
<1>. QED
  BY <1>1, <1>2, <1>3, <1>4, <1>5, <1>6, <1>7, <1>8, <1>9, <1>10, <1>11, <1>12
     DEF KeysNext

-----------------------------------------------------------------------------
(* KeysInv is inductive: who has which key, and what is on a disk.          *)
THEOREM KeysInvariant == KeysSpec => []KeysInv
<1>1. KeysInit => KeysInv
  BY KeysAssumption DEF KeysInit, KeysInv, KeysTypeOK, KeyOfOneAccount, KeysGenerated,
     KeysHeld, StoredOnce, DiskOrder, Nowhere, At, KeyStep, Key, File, Filling, WritingKeys
<1>2. KeysInv /\ [KeysNext]_keysVars => KeysInv'
  BY KeysTypeStep, KeysGeneratedStep, KeysHeldStep, StoredOnceStep, KeyOfOneAccountStep,
     DiskOrderStep DEF KeysInv
<1>. QED  BY <1>1, <1>2, PTL DEF KeysSpec

(* No two accounts have one key pair on the server, for any accounts,       *)
(* machines and clients (InitClientE2EKeys).                                *)
THEOREM OneKeyPerAccount == KeysSpec => []KeyOfOneAccount
BY KeysInvariant, PTL DEF KeysInv

(* The two files of a machine belong together unless two clients wrote keys *)
(* on it at once (writePEM).                                                *)
THEOREM KeyFilesMatch == KeysSpec => []PairMatches
<1>1. KeysInv => PairMatches
  BY DEF KeysInv, DiskOrder, PairMatches
<1>. QED  BY <1>1, KeysInvariant, PTL

(* A private key on disk is not lost to another (restoreE2EIfNeeded).       *)
THEOREM PrivateKeyKept == KeysSpec => PrivateKeyStays
<1>. DEFINE Kept == \A d \in Device \ crowded' :
                      disk[d]["private"] \in Key => disk'[d]["private"] = disk[d]["private"]
<1>1. KeysInv /\ [KeysNext]_keysVars => [Kept]_keysVars
  <2>. SUFFICES ASSUME KeysInv, KeysNext PROVE Kept
    OBVIOUS
  <2>1. ASSUME NEW c \in Client, OpenFile(c) \/ FillFile(c)
        PROVE  Kept
    BY <2>1, KeysAssumption
       DEF KeysInv, KeysTypeOK, DiskOrder, OpenFile, FillFile, FileOf,
            WritingOrder, WritingKeys, File, Key
  <2>2. disk' = disk => Kept
    OBVIOUS
  <2>. QED
    BY <2>1, <2>2 DEF KeysNext, RegisterWithLocalKey, RegisterAnew, LogsIn,
         Generate, CreatesUser,
       StoresBundle, RestoresKey, KeepsKey, GivesUp
<1>. QED  BY <1>1, KeysInvariant, PTL DEF KeysSpec, PrivateKeyStays

-----------------------------------------------------------------------------
AfterMigration == {"certs", "cert", "certing", "key", "keying", "load", "listen"}
PastLog == {"version", "migrate"} \cup AfterMigration
Settled(p) == at[p] \in PastLog

(* The types of what is on disk, of the processes, and of the requests.     *)
DiskShape ==
    /\ logFile \in {NoFile, Half} \cup Config
    /\ certFile \in {NoFile, Half} \cup 1 .. MaxCerts
    /\ keyFile \in {NoFile, Half} \cup 1 .. MaxCerts
    /\ generatedCerts \in 0 .. MaxCerts

ProcessShape ==
    /\ at \in [Process -> Stages] /\ enabled \in [Process -> Config]
    /\ version \in [Process -> 0 .. Latest] /\ cert \in [Process -> 0 .. MaxCerts]
    /\ bound \in [Port -> Process \cup {NoProcess}]
    /\ \A p \in Process, o \in Port : bound[o] = p => at[p] = "listen"
    /\ \A p \in Process : at[p] = "logs" => enabled[p] = DefaultConfig

RequestShape ==
    /\ toggle \in [Request -> [at : {"idle", "open", "fill", "memory"}, copy : Config]]
    /\ \A r \in Request : toggle[r].at = "idle" => toggle[r] = NoRequest

StartupShape == DiskShape /\ ProcessShape /\ RequestShape

(* Migrations are applied in order, and a process counts those that are.    *)
SchemaGrows ==
    /\ \E n \in 0 .. Latest : schema = 1 .. n
    /\ \A p \in Process :
          /\ at[p] = "migrate" => 1 .. version[p] \subseteq schema
          /\ at[p] \in AfterMigration => schema = 1 .. Latest

(* The certificate is written before the key, by one process at a time.     *)
CertOrder ==
    /\ certFile = NoFile => keyFile = NoFile
    /\ \A p \in Process :
          /\ at[p] \in {"cert", "certing", "key", "keying"} => cert[p] \in 1 .. MaxCerts
          /\ at[p] \in {"certing", "key", "keying"} => certFile # NoFile
    /\ "cert" \notin raced =>
          /\ \A p, q \in CertWriters : p = q
          /\ keyFile \in 1 .. MaxCerts => certFile = keyFile
          /\ \A p \in Process :
                /\ at[p] \in {"cert", "certing", "key"} => keyFile = NoFile
                /\ at[p] \in {"key", "keying"} => certFile = cert[p]
                /\ at[p] = "certing" => certFile = Half
                /\ at[p] = "keying" => keyFile = Half

(* A process that has passed the log's file has found or written it.        *)
LogFound == logFile = NoFile => \A p \in Process : ~Settled(p)

(* Who writes the log's file has no reader and no other writer beside them, *)
(* who toggles is the only one to, and who has read the file knows what it  *)
(* says, until a toggle begins.                                             *)
LogWriting ==
    \A p \in LogWriters :
        /\ LogReaders = {p} /\ Toggling = {} /\ enabled[p] = DefaultConfig
        /\ logFile = IF at[p] = "default" THEN NoFile ELSE Half

LogToggled ==
    \A r \in Toggling :
        /\ Toggling = {r} /\ LogReaders = {bound["https"]}
        /\ toggle[r].at = "fill" => logFile = Half
        /\ toggle[r].at = "memory" => logFile = toggle[r].copy

LogKnown ==
    logFile # Half /\ (\A r \in Toggling : toggle[r].at = "open") =>
        \A p \in Process : Settled(p) => enabled[p] = logFile

LogOrder == LogFound /\ ("log" \notin raced => LogWriting /\ LogToggled /\ LogKnown)

StartupInv == StartupShape /\ SchemaGrows /\ CertOrder /\ LogOrder

LEMMA DefaultTyped == DefaultConfig \in Config
BY DEF DefaultConfig, Config

(* A copy of the categories with one changed. *)
LEMMA ChangedTyped ==
    ASSUME NEW f \in Config, NEW c \in Category, NEW on \in BOOLEAN
    PROVE  [f EXCEPT ![c] = on] \in Config
BY DEF Config

(* The version that a process reads is that of the last migration.          *)
LEMMA LastVersion ==
    ASSUME NEW n \in Nat, schema = 1 .. n
    PROVE  (CHOOSE v \in schema \cup {0} : \A w \in schema : w <= v) = n
<1>. DEFINE P(v) == \A w \in schema : w <= v
<1>1. n \in schema \cup {0} /\ P(n)
  OBVIOUS
<1>2. ASSUME NEW v \in schema \cup {0}, P(v)
      PROVE  v = n
  BY <1>2
<1>. HIDE DEF P
<1>3. \E v \in schema \cup {0} : P(v)
  BY <1>1
<1>4. (CHOOSE v \in schema \cup {0} : P(v)) \in schema \cup {0}
      /\ P(CHOOSE v \in schema \cup {0} : P(v))
  BY <1>3
<1>5. (CHOOSE v \in schema \cup {0} : P(v)) = n
  BY <1>2, <1>4
<1>. QED  BY <1>5 DEF P

(* A step keeps the types of what is on disk. *)
LEMMA DiskShapeStep ==
    ASSUME StartupShape, CertOrder, [StartupNext]_startupVars
    PROVE  DiskShape'
<1>. USE StartupAssumption, DefaultTyped DEF StartupShape, DiskShape,
     ProcessShape, RequestShape, CertOrder, NoRequest
<1>1. ASSUME UNCHANGED startupVars
      PROVE  DiskShape'
  BY <1>1 DEF startupVars, diskVars, certVars
<1>2. ASSUME NEW p \in Process, Start(p)
      PROVE  DiskShape'
  BY <1>2 DEF Start, startupVars, diskVars, certVars
<1>3. ASSUME NEW p \in Process, Exit(p)
      PROVE  DiskShape'
  BY <1>3 DEF Exit, Serving, startupVars, diskVars, certVars
<1>4. ASSUME NEW p \in Process, ReadLogConfig(p)
      PROVE  DiskShape'
  BY <1>4 DEF ReadLogConfig, RaceForLog, startupVars, diskVars, certVars
<1>5. ASSUME NEW p \in Process, WriteDefault(p)
      PROVE  DiskShape'
  BY <1>5 DEF WriteDefault, startupVars, diskVars, certVars
<1>6. ASSUME NEW p \in Process, NEW r \in Request, NEW c \in Category, NEW on
             \in BOOLEAN, CopyConfig(p, r, c, on)
      PROVE  DiskShape'
  BY <1>6 DEF CopyConfig, RaceForLog, Serving, startupVars, diskVars, certVars
<1>7. ASSUME NEW r \in Request, SaveLogFile(r)
      PROVE  DiskShape'
  BY <1>7 DEF SaveLogFile, startupVars, diskVars, certVars
<1>8. ASSUME NEW r \in Request, SaveFails(r)
      PROVE  DiskShape'
  BY <1>8 DEF SaveFails, startupVars, diskVars, certVars
<1>9. ASSUME NEW p \in Process, NEW r \in Request, SetConfig(p, r)
      PROVE  DiskShape'
  BY <1>9 DEF SetConfig, InMemory, Serving, startupVars, diskVars, certVars
<1>10. ASSUME NEW p \in Process, ReadVersion(p)
      PROVE  DiskShape'
  BY <1>10 DEF ReadVersion, startupVars, diskVars, certVars
<1>11. ASSUME NEW p \in Process, ApplyMigration(p)
      PROVE  DiskShape'
  BY <1>11 DEF ApplyMigration, startupVars, diskVars, certVars
<1>12. ASSUME NEW p \in Process, Migrated(p)
      PROVE  DiskShape'
  BY <1>12 DEF Migrated, startupVars, diskVars, certVars
<1>13. ASSUME NEW p \in Process, FilesExist(p)
      PROVE  DiskShape'
  BY <1>13 DEF FilesExist, startupVars, diskVars, certVars
<1>14. ASSUME NEW p \in Process, GenerateCert(p)
      PROVE  DiskShape'
  BY <1>14 DEF GenerateCert, FirstFile, startupVars, diskVars, certVars
<1>15. ASSUME NEW p \in Process, WriteCert(p)
      PROVE  DiskShape'
  BY <1>15 DEF WriteCert, startupVars, diskVars, certVars
<1>16. ASSUME NEW p \in Process, WriteKey(p)
      PROVE  DiskShape'
  BY <1>16 DEF WriteKey, startupVars, diskVars, certVars
<1>17. ASSUME NEW p \in Process, LoadPair(p)
      PROVE  DiskShape'
  BY <1>17 DEF LoadPair, startupVars, diskVars, certVars
<1>18. ASSUME NEW p \in Process, NEW o \in Port, Listen(p, o)
      PROVE  DiskShape'
  BY <1>18 DEF Listen, startupVars, diskVars, certVars
<1>. HIDE DEF DiskShape
<1>. QED
  BY <1>1, <1>2, <1>3, <1>4, <1>5, <1>6, <1>7, <1>8, <1>9, <1>10, <1>11,
     <1>12, <1>13, <1>14, <1>15, <1>16, <1>17, <1>18 DEF StartupNext,
     ProcessStep, MigrationFails, GivesUpStarting

(* A step keeps the types of the processes. *)
LEMMA ProcessShapeStep ==
    ASSUME StartupShape, SchemaGrows, [StartupNext]_startupVars
    PROVE  ProcessShape'
<1>. USE StartupAssumption, DefaultTyped DEF StartupShape, DiskShape,
     ProcessShape, RequestShape, NoRequest, To, Port, Stages
<1>1. ASSUME UNCHANGED startupVars
      PROVE  ProcessShape'
  BY <1>1 DEF startupVars, diskVars, certVars
<1>2. ASSUME NEW p \in Process, Start(p)
      PROVE  ProcessShape'
  BY <1>2 DEF Start, startupVars, diskVars, certVars
<1>3. ASSUME NEW p \in Process, Exit(p)
      PROVE  ProcessShape'
  BY <1>3 DEF Exit, Serving, startupVars, diskVars, certVars
<1>4. ASSUME NEW p \in Process, ReadLogConfig(p)
      PROVE  ProcessShape'
  <2>1. CASE logFile = NoFile
    BY <1>4, <2>1 DEF ReadLogConfig, diskVars, certVars
  <2>2. CASE logFile # NoFile
    <3>1. /\ enabled' = [enabled EXCEPT ![p] = logFile] /\ logFile \in Config
          /\ at' = [at EXCEPT ![p] = "version"] /\ at[p] = "logs"
          /\ UNCHANGED <<version, cert, bound>>
      BY <1>4, <2>2 DEF ReadLogConfig
    <3>. QED  BY <3>1
  <2>. QED  BY <2>1, <2>2
<1>5. ASSUME NEW p \in Process, WriteDefault(p)
      PROVE  ProcessShape'
  BY <1>5 DEF WriteDefault, startupVars, diskVars, certVars
<1>6. ASSUME NEW p \in Process, NEW r \in Request, NEW c \in Category, NEW on
             \in BOOLEAN, CopyConfig(p, r, c, on)
      PROVE  ProcessShape'
  BY <1>6 DEF CopyConfig, RaceForLog, Serving, startupVars, diskVars, certVars
<1>7. ASSUME NEW r \in Request, SaveLogFile(r)
      PROVE  ProcessShape'
  BY <1>7 DEF SaveLogFile, startupVars, diskVars, certVars
<1>8. ASSUME NEW r \in Request, SaveFails(r)
      PROVE  ProcessShape'
  BY <1>8 DEF SaveFails, startupVars, diskVars, certVars
<1>9. ASSUME NEW p \in Process, NEW r \in Request, SetConfig(p, r)
      PROVE  ProcessShape'
  BY <1>9 DEF SetConfig, InMemory, Serving, startupVars, diskVars, certVars
<1>10. ASSUME NEW p \in Process, ReadVersion(p)
      PROVE  ProcessShape'
  <2>1. PICK n \in 0 .. Latest : schema = 1 .. n
    BY DEF SchemaGrows
  <2>2. version' = [version EXCEPT ![p] = n]
    <3>1. n \in Nat
      OBVIOUS
    <3>2. (CHOOSE v \in schema \cup {0} : \A w \in schema : w <= v) = n
      BY <2>1, <3>1, LastVersion
    <3>3. version' = [version EXCEPT ![p] =
                       CHOOSE v \in schema \cup {0} : \A w \in schema : w <= v]
      BY <1>10 DEF ReadVersion
    <3>. QED  BY <3>2, <3>3, Zenon
  <2>3. at' = [at EXCEPT ![p] = "migrate"] /\ UNCHANGED <<enabled, cert, bound>> /\ at[p] = "version"
    BY <1>10 DEF ReadVersion
  <2>. QED  BY <2>2, <2>3
<1>11. ASSUME NEW p \in Process, ApplyMigration(p)
      PROVE  ProcessShape'
  BY <1>11 DEF ApplyMigration, startupVars, diskVars, certVars
<1>12. ASSUME NEW p \in Process, Migrated(p)
      PROVE  ProcessShape'
  BY <1>12 DEF Migrated, startupVars, diskVars, certVars
<1>13. ASSUME NEW p \in Process, FilesExist(p)
      PROVE  ProcessShape'
  BY <1>13 DEF FilesExist, startupVars, diskVars, certVars
<1>14. ASSUME NEW p \in Process, GenerateCert(p)
      PROVE  ProcessShape'
  BY <1>14 DEF GenerateCert, FirstFile, startupVars, diskVars, certVars
<1>15. ASSUME NEW p \in Process, WriteCert(p)
      PROVE  ProcessShape'
  BY <1>15 DEF WriteCert, startupVars, diskVars, certVars
<1>16. ASSUME NEW p \in Process, WriteKey(p)
      PROVE  ProcessShape'
  BY <1>16 DEF WriteKey, startupVars, diskVars, certVars
<1>17. ASSUME NEW p \in Process, LoadPair(p)
      PROVE  ProcessShape'
  BY <1>17 DEF LoadPair, startupVars, diskVars, certVars
<1>18. ASSUME NEW p \in Process, NEW o \in Port, Listen(p, o)
      PROVE  ProcessShape'
  BY <1>18 DEF Listen, startupVars, diskVars, certVars
<1>. HIDE DEF ProcessShape
<1>. QED
  BY <1>1, <1>2, <1>3, <1>4, <1>5, <1>6, <1>7, <1>8, <1>9, <1>10, <1>11,
     <1>12, <1>13, <1>14, <1>15, <1>16, <1>17, <1>18 DEF StartupNext,
     ProcessStep, MigrationFails, GivesUpStarting

(* A step keeps the types of the requests. *)
LEMMA RequestShapeStep ==
    ASSUME StartupShape, [StartupNext]_startupVars
    PROVE  RequestShape'
<1>. USE StartupAssumption, DefaultTyped DEF StartupShape, RequestShape, NoRequest
<1>1. ASSUME UNCHANGED startupVars
      PROVE  RequestShape'
  BY <1>1 DEF startupVars, diskVars, certVars
<1>2. ASSUME NEW p \in Process, Start(p)
      PROVE  RequestShape'
  BY <1>2 DEF Start, startupVars, diskVars, certVars
<1>3. ASSUME NEW p \in Process, Exit(p)
      PROVE  RequestShape'
  BY <1>3 DEF Exit, Serving, startupVars, diskVars, certVars
<1>4. ASSUME NEW p \in Process, ReadLogConfig(p)
      PROVE  RequestShape'
  BY <1>4 DEF ReadLogConfig, RaceForLog, startupVars, diskVars, certVars
<1>5. ASSUME NEW p \in Process, WriteDefault(p)
      PROVE  RequestShape'
  BY <1>5 DEF WriteDefault, startupVars, diskVars, certVars
<1>6. ASSUME NEW p \in Process, NEW r \in Request, NEW c \in Category, NEW on
             \in BOOLEAN, CopyConfig(p, r, c, on)
      PROVE  RequestShape'
  <2>1. [enabled[p] EXCEPT ![c] = on] \in Config
    BY ChangedTyped DEF ProcessShape
  <2>. QED  BY <1>6, <2>1 DEF CopyConfig
<1>7. ASSUME NEW r \in Request, SaveLogFile(r)
      PROVE  RequestShape'
  BY <1>7 DEF SaveLogFile, startupVars, diskVars, certVars
<1>8. ASSUME NEW r \in Request, SaveFails(r)
      PROVE  RequestShape'
  BY <1>8 DEF SaveFails, startupVars, diskVars, certVars
<1>9. ASSUME NEW p \in Process, NEW r \in Request, SetConfig(p, r)
      PROVE  RequestShape'
  BY <1>9 DEF SetConfig, InMemory, Serving, startupVars, diskVars, certVars
<1>10. ASSUME NEW p \in Process, ReadVersion(p)
      PROVE  RequestShape'
  BY <1>10 DEF ReadVersion, startupVars, diskVars, certVars
<1>11. ASSUME NEW p \in Process, ApplyMigration(p)
      PROVE  RequestShape'
  BY <1>11 DEF ApplyMigration, startupVars, diskVars, certVars
<1>12. ASSUME NEW p \in Process, Migrated(p)
      PROVE  RequestShape'
  BY <1>12 DEF Migrated, startupVars, diskVars, certVars
<1>13. ASSUME NEW p \in Process, FilesExist(p)
      PROVE  RequestShape'
  BY <1>13 DEF FilesExist, startupVars, diskVars, certVars
<1>14. ASSUME NEW p \in Process, GenerateCert(p)
      PROVE  RequestShape'
  BY <1>14 DEF GenerateCert, FirstFile, startupVars, diskVars, certVars
<1>15. ASSUME NEW p \in Process, WriteCert(p)
      PROVE  RequestShape'
  BY <1>15 DEF WriteCert, startupVars, diskVars, certVars
<1>16. ASSUME NEW p \in Process, WriteKey(p)
      PROVE  RequestShape'
  BY <1>16 DEF WriteKey, startupVars, diskVars, certVars
<1>17. ASSUME NEW p \in Process, LoadPair(p)
      PROVE  RequestShape'
  BY <1>17 DEF LoadPair, startupVars, diskVars, certVars
<1>18. ASSUME NEW p \in Process, NEW o \in Port, Listen(p, o)
      PROVE  RequestShape'
  BY <1>18 DEF Listen, startupVars, diskVars, certVars
<1>. HIDE DEF RequestShape
<1>. QED
  BY <1>1, <1>2, <1>3, <1>4, <1>5, <1>6, <1>7, <1>8, <1>9, <1>10, <1>11,
     <1>12, <1>13, <1>14, <1>15, <1>16, <1>17, <1>18 DEF StartupNext,
     ProcessStep, MigrationFails, GivesUpStarting

(* A step applies the next migration, if any. *)
LEMMA SchemaGrowsStep ==
    ASSUME StartupShape, SchemaGrows, [StartupNext]_startupVars
    PROVE  SchemaGrows'
<1>. USE StartupAssumption DEF StartupShape, DiskShape, ProcessShape,
     SchemaGrows, AfterMigration, To, Stages
<1>1. ASSUME UNCHANGED startupVars
      PROVE  SchemaGrows'
  BY <1>1 DEF startupVars, diskVars, certVars
<1>2. ASSUME NEW p \in Process, Start(p)
      PROVE  SchemaGrows'
  BY <1>2 DEF Start, startupVars, diskVars, certVars
<1>3. ASSUME NEW p \in Process, Exit(p)
      PROVE  SchemaGrows'
  BY <1>3 DEF Exit, Serving, startupVars, diskVars, certVars
<1>4. ASSUME NEW p \in Process, ReadLogConfig(p)
      PROVE  SchemaGrows'
  BY <1>4 DEF ReadLogConfig, RaceForLog, startupVars, diskVars, certVars
<1>5. ASSUME NEW p \in Process, WriteDefault(p)
      PROVE  SchemaGrows'
  BY <1>5 DEF WriteDefault, startupVars, diskVars, certVars
<1>6. ASSUME NEW p \in Process, NEW r \in Request, NEW c \in Category, NEW on
             \in BOOLEAN, CopyConfig(p, r, c, on)
      PROVE  SchemaGrows'
  BY <1>6 DEF CopyConfig, RaceForLog, Serving, startupVars, diskVars, certVars
<1>7. ASSUME NEW r \in Request, SaveLogFile(r)
      PROVE  SchemaGrows'
  BY <1>7 DEF SaveLogFile, startupVars, diskVars, certVars
<1>8. ASSUME NEW r \in Request, SaveFails(r)
      PROVE  SchemaGrows'
  BY <1>8 DEF SaveFails, startupVars, diskVars, certVars
<1>9. ASSUME NEW p \in Process, NEW r \in Request, SetConfig(p, r)
      PROVE  SchemaGrows'
  BY <1>9 DEF SetConfig, InMemory, Serving, startupVars, diskVars, certVars
<1>10. ASSUME NEW p \in Process, ReadVersion(p)
      PROVE  SchemaGrows'
  <2>1. PICK n \in 0 .. Latest : schema = 1 .. n
    BY DEF SchemaGrows
  <2>2. version' = [version EXCEPT ![p] = n]
    <3>1. n \in Nat
      OBVIOUS
    <3>2. (CHOOSE v \in schema \cup {0} : \A w \in schema : w <= v) = n
      BY <2>1, <3>1, LastVersion
    <3>3. version' = [version EXCEPT ![p] =
                       CHOOSE v \in schema \cup {0} : \A w \in schema : w <= v]
      BY <1>10 DEF ReadVersion
    <3>. QED  BY <3>2, <3>3, Zenon
  <2>3. at' = [at EXCEPT ![p] = "migrate"] /\ schema' = schema
    BY <1>10 DEF ReadVersion, diskVars
  <2>. QED  BY <2>1, <2>2, <2>3
<1>11. ASSUME NEW p \in Process, ApplyMigration(p)
      PROVE  SchemaGrows'
  <2>1. PICK n \in 0 .. Latest : schema = 1 .. n
    BY DEF SchemaGrows
  <2>2. PICK v \in 0 .. Latest : v = version[p]
    OBVIOUS
  <2>3. v + 1 = n + 1 /\ n < Latest
    <3>1. /\ v + 1 \notin schema /\ v < Latest /\ 1 .. v \subseteq schema
      BY <1>11, <2>2 DEF ApplyMigration
    <3>2. v + 1 > n
      BY <2>1, <3>1
    <3>3. v <= n
      <4>1. CASE v = 0
        BY <4>1
      <4>2. CASE v > 0
        <5>1. v \in 1 .. v
          BY <4>2
        <5>2. v \in schema
          BY <3>1, <5>1, Zenon
        <5>. QED  BY <2>1, <5>2
      <4>. QED  BY <4>1, <4>2
    <3>. QED  BY <3>1, <3>2, <3>3
  <2>4. schema' = 1 .. n + 1 /\ n + 1 \in 0 .. Latest /\ schema \subseteq schema'
    BY <1>11, <2>1, <2>2, <2>3 DEF ApplyMigration
  <2>5. version' = [version EXCEPT ![p] = n + 1] /\ at' = at
    BY <1>11, <2>2, <2>3 DEF ApplyMigration
  <2>6. \A q \in Process : at[q] \notin AfterMigration
    BY <2>1, <2>3
  <2>. QED  BY <2>4, <2>5, <2>6
<1>12. ASSUME NEW p \in Process, Migrated(p)
      PROVE  SchemaGrows'
  BY <1>12 DEF Migrated, startupVars, diskVars, certVars
<1>13. ASSUME NEW p \in Process, FilesExist(p)
      PROVE  SchemaGrows'
  BY <1>13 DEF FilesExist, startupVars, diskVars, certVars
<1>14. ASSUME NEW p \in Process, GenerateCert(p)
      PROVE  SchemaGrows'
  BY <1>14 DEF GenerateCert, FirstFile, startupVars, diskVars, certVars
<1>15. ASSUME NEW p \in Process, WriteCert(p)
      PROVE  SchemaGrows'
  BY <1>15 DEF WriteCert, startupVars, diskVars, certVars
<1>16. ASSUME NEW p \in Process, WriteKey(p)
      PROVE  SchemaGrows'
  BY <1>16 DEF WriteKey, startupVars, diskVars, certVars
<1>17. ASSUME NEW p \in Process, LoadPair(p)
      PROVE  SchemaGrows'
  BY <1>17 DEF LoadPair, startupVars, diskVars, certVars
<1>18. ASSUME NEW p \in Process, NEW o \in Port, Listen(p, o)
      PROVE  SchemaGrows'
  BY <1>18 DEF Listen, startupVars, diskVars, certVars
<1>. HIDE DEF SchemaGrows
<1>. QED
  BY <1>1, <1>2, <1>3, <1>4, <1>5, <1>6, <1>7, <1>8, <1>9, <1>10, <1>11,
     <1>12, <1>13, <1>14, <1>15, <1>16, <1>17, <1>18 DEF StartupNext,
     ProcessStep, MigrationFails, GivesUpStarting

(* A step writes the certificate before the key. *)
LEMMA CertOrderStep ==
    ASSUME StartupShape, CertOrder, [StartupNext]_startupVars
    PROVE  CertOrder'
<1>. USE StartupAssumption DEF StartupShape, DiskShape, ProcessShape, CertOrder,
     CertWriters, To, Stages
<1>1. ASSUME UNCHANGED startupVars
      PROVE  CertOrder'
  BY <1>1 DEF startupVars, diskVars, certVars
<1>2. ASSUME NEW p \in Process, Start(p)
      PROVE  CertOrder'
  BY <1>2 DEF Start, startupVars, diskVars, certVars
<1>3. ASSUME NEW p \in Process, Exit(p)
      PROVE  CertOrder'
  BY <1>3 DEF Exit, Serving, startupVars, diskVars, certVars
<1>4. ASSUME NEW p \in Process, ReadLogConfig(p)
      PROVE  CertOrder'
  BY <1>4 DEF ReadLogConfig, RaceForLog, startupVars, diskVars, certVars
<1>5. ASSUME NEW p \in Process, WriteDefault(p)
      PROVE  CertOrder'
  BY <1>5 DEF WriteDefault, startupVars, diskVars, certVars
<1>6. ASSUME NEW p \in Process, NEW r \in Request, NEW c \in Category, NEW on
             \in BOOLEAN, CopyConfig(p, r, c, on)
      PROVE  CertOrder'
  BY <1>6 DEF CopyConfig, RaceForLog, Serving, startupVars, diskVars, certVars
<1>7. ASSUME NEW r \in Request, SaveLogFile(r)
      PROVE  CertOrder'
  BY <1>7 DEF SaveLogFile, startupVars, diskVars, certVars
<1>8. ASSUME NEW r \in Request, SaveFails(r)
      PROVE  CertOrder'
  BY <1>8 DEF SaveFails, startupVars, diskVars, certVars
<1>9. ASSUME NEW p \in Process, NEW r \in Request, SetConfig(p, r)
      PROVE  CertOrder'
  BY <1>9 DEF SetConfig, InMemory, Serving, startupVars, diskVars, certVars
<1>10. ASSUME NEW p \in Process, ReadVersion(p)
      PROVE  CertOrder'
  BY <1>10 DEF ReadVersion, startupVars, diskVars, certVars
<1>11. ASSUME NEW p \in Process, ApplyMigration(p)
      PROVE  CertOrder'
  BY <1>11 DEF ApplyMigration, startupVars, diskVars, certVars
<1>12. ASSUME NEW p \in Process, Migrated(p)
      PROVE  CertOrder'
  BY <1>12 DEF Migrated, startupVars, diskVars, certVars
<1>13. ASSUME NEW p \in Process, FilesExist(p)
      PROVE  CertOrder'
  BY <1>13 DEF FilesExist, startupVars, diskVars, certVars
<1>14. ASSUME NEW p \in Process, GenerateCert(p)
      PROVE  CertOrder'
  BY <1>14 DEF GenerateCert, FirstFile, startupVars, diskVars, certVars
<1>15. ASSUME NEW p \in Process, WriteCert(p)
      PROVE  CertOrder'
  BY <1>15 DEF WriteCert, startupVars, diskVars, certVars
<1>16. ASSUME NEW p \in Process, WriteKey(p)
      PROVE  CertOrder'
  BY <1>16 DEF WriteKey, startupVars, diskVars, certVars
<1>17. ASSUME NEW p \in Process, LoadPair(p)
      PROVE  CertOrder'
  BY <1>17 DEF LoadPair, startupVars, diskVars, certVars
<1>18. ASSUME NEW p \in Process, NEW o \in Port, Listen(p, o)
      PROVE  CertOrder'
  BY <1>18 DEF Listen, startupVars, diskVars, certVars
<1>. HIDE DEF CertOrder
<1>. QED
  BY <1>1, <1>2, <1>3, <1>4, <1>5, <1>6, <1>7, <1>8, <1>9, <1>10, <1>11,
     <1>12, <1>13, <1>14, <1>15, <1>16, <1>17, <1>18 DEF StartupNext,
     ProcessStep, MigrationFails, GivesUpStarting

(* A step writes the log's file by itself, or is a race for it. *)
LEMMA LogOrderStep ==
    ASSUME StartupShape, LogOrder, [StartupNext]_startupVars
    PROVE  LogOrder'
<1>. USE StartupAssumption
<1>1. /\ Toggling = {r \in Request : toggle[r].at # "idle"}
      /\ Toggling' = {r \in Request : toggle'[r].at # "idle"}
  <2>1. RequestShape /\ RequestShape'
    BY RequestShapeStep DEF StartupShape
  <2>. QED  BY <2>1 DEF RequestShape, Toggling, NoRequest
<1>2. /\ at \in [Process -> Stages] /\ DefaultConfig \in Config
      /\ bound \in [Port -> Process \cup {NoProcess}]
      /\ \A p \in Process : bound["https"] = p => Settled(p) /\ at[p] = "listen"
  BY DEF StartupShape, ProcessShape, Settled, PastLog, AfterMigration, Config,
       DefaultConfig, Port
<1>3. NoFile \notin Config /\ Half \notin Config /\ NoFile # Half /\ NoProcess \notin Process
  BY DEF Config
<1>4. /\ \A p \in Process : p \in LogReaders <=> at[p] \notin {"off", "logs"}
      /\ \A p \in Process : p \in LogReaders' <=> at'[p] \notin {"off", "logs"}
      /\ \A p \in Process : p \in LogWriters <=> at[p] \in {"default", "defaulting"}
      /\ \A p \in Process : p \in LogWriters' <=> at'[p] \in {"default", "defaulting"}
      /\ LogReaders \subseteq Process /\ LogReaders' \subseteq Process
      /\ LogWriters \subseteq Process /\ LogWriters' \subseteq Process
  BY DEF LogReaders, LogWriters
<1>5. \A p \in Process : /\ p \in LogReaders <=> p \in LogWriters \/ Settled(p)
                         /\ ~(p \in LogWriters /\ Settled(p))
  BY <1>2, <1>4 DEF Stages, Settled, PastLog, AfterMigration
(* A step that only moves processes that are past the file. *)
<1>6. ASSUME UNCHANGED <<logFile, enabled, toggle, bound>>,
             "log" \notin raced' => "log" \notin raced,
             \A p \in Process : at'[p] = at[p] \/ (at[p] \in PastLog /\ at'[p] \in PastLog)
      PROVE  LogOrder'
  <2>1. \A p \in Process : Settled(p)' <=> Settled(p)
    BY <1>6 DEF Settled
  <2>2. \A p \in Process : at'[p] = at[p] \/ /\ at[p] \notin {"off", "logs", "default", "defaulting"}
                                             /\ at'[p] \notin {"off", "logs", "default", "defaulting"}
    BY <1>6 DEF Settled, PastLog, AfterMigration
  <2>3. LogReaders' = LogReaders /\ LogWriters' = LogWriters /\ Toggling' = Toggling
    BY <1>1, <1>4, <1>6, <2>2
  <2>4. \A p \in LogWriters : at'[p] = at[p]
    BY <1>4, <2>2
  <2>. QED
    BY <1>6, <2>1, <2>3, <2>4 DEF LogOrder, LogFound, LogWriting, LogToggled, LogKnown
<1>7. ASSUME NEW p \in Process, Start(p)
      PROVE  LogOrder'
  <2>1. /\ at[p] = "off" /\ at' = [at EXCEPT ![p] = "logs"]
        /\ UNCHANGED <<logFile, toggle, bound, raced>>
        /\ \A q \in Process \ {p} : enabled'[q] = enabled[q]
    BY <1>7 DEF Start, To, diskVars, StartupShape, ProcessShape
  <2>2. \A q \in Process : q # p => at'[q] = at[q]
    BY <1>2, <2>1
  <2>3. LogReaders' = LogReaders /\ LogWriters' = LogWriters /\ Toggling' = Toggling
        /\ at'[p] = "logs"
    BY <1>1, <1>2, <1>4, <2>1
  <2>4. \A q \in Process : (Settled(q)' <=> Settled(q)) /\ (Settled(q) => q # p)
    BY <2>1, <2>2, <2>3 DEF Settled, PastLog, AfterMigration
  <2>5. LogFound'
    BY <2>1, <2>4 DEF LogOrder, LogFound
  <2>6. ASSUME "log" \notin raced' PROVE LogWriting'
    BY <1>4, <2>1, <2>2, <2>3, <2>6 DEF LogOrder, LogWriting
  <2>7. ASSUME "log" \notin raced' PROVE LogToggled'
    BY <2>1, <2>3, <2>7 DEF LogOrder, LogToggled
  <2>8. ASSUME "log" \notin raced' PROVE LogKnown'
    BY <2>1, <2>3, <2>4, <2>8 DEF LogOrder, LogKnown
  <2>. QED  BY <2>5, <2>6, <2>7, <2>8 DEF LogOrder
<1>8. ASSUME NEW p \in Process, Exit(p)
      PROVE  LogOrder'
  <2>1. /\ at' = [at EXCEPT ![p] = "off"] /\ UNCHANGED <<logFile, enabled, raced>>
        /\ IF bound["https"] = p
           THEN toggle' = [r \in Request |-> NoRequest]
           ELSE toggle' = toggle /\ bound'["https"] = bound["https"]
    BY <1>8 DEF Exit, To, Serving, diskVars, Port
  <2>2. /\ \A q \in Process : q # p => at'[q] = at[q]
        /\ at'[p] = "off" /\ LogReaders' = LogReaders \ {p} /\ LogWriters' = LogWriters \ {p}
    BY <1>2, <1>4, <2>1
  <2>3. \A q \in Process : Settled(q)' => q # p /\ Settled(q)
    BY <2>2 DEF Settled, PastLog, AfterMigration
  <2>4. IF bound["https"] = p THEN Toggling' = {} ELSE Toggling' = Toggling
    BY <1>1, <2>1 DEF NoRequest
  <2>5. LogFound'
    BY <2>1, <2>3 DEF LogOrder, LogFound
  <2>6. ASSUME "log" \notin raced' PROVE LogWriting'
    <3>1. LogWriting
      BY <2>1, <2>6 DEF LogOrder
    <3>2. ASSUME NEW q \in LogWriters' PROVE q \in LogWriters /\ q # p /\ at'[q] = at[q]
      BY <1>4, <2>2
    <3>. QED  BY <2>1, <2>2, <2>4, <3>1, <3>2 DEF LogWriting
  <2>7. ASSUME "log" \notin raced' PROVE LogToggled'
    <3>1. LogToggled
      BY <2>1, <2>7 DEF LogOrder
    <3>2. CASE bound["https"] = p
      BY <2>4, <3>2 DEF LogToggled
    <3>3. CASE bound["https"] # p
      <4>1. Toggling # {} => p \notin LogReaders
        BY <3>1, <3>3 DEF LogToggled
      <4>. QED  BY <2>1, <2>2, <2>4, <3>1, <3>3, <4>1 DEF LogToggled
    <3>. QED  BY <3>2, <3>3
  <2>8. ASSUME "log" \notin raced' PROVE LogKnown'
    <3>1. LogKnown /\ LogToggled
      BY <2>1, <2>8 DEF LogOrder
    <3>2. CASE bound["https"] = p /\ Toggling # {}
      <4>1. LogReaders' = {}
        BY <2>2, <3>1, <3>2 DEF LogToggled
      <4>2. \A q \in Process : ~Settled(q)'
        BY <1>4, <2>2, <2>3, <4>1, <1>5
      <4>. QED  BY <4>2 DEF LogKnown
    <3>3. CASE bound["https"] = p /\ Toggling = {}
      BY <2>1, <2>3, <2>4, <3>1, <3>3 DEF LogKnown
    <3>4. CASE bound["https"] # p
      BY <2>1, <2>3, <2>4, <3>1, <3>4 DEF LogKnown
    <3>. QED  BY <3>2, <3>3, <3>4
  <2>. QED  BY <2>5, <2>6, <2>7, <2>8 DEF LogOrder
<1>9. ASSUME NEW p \in Process, ReadLogConfig(p)
      PROVE  LogOrder'
  <2>1. /\ at[p] = "logs" /\ UNCHANGED <<logFile, toggle, bound>>
        /\ "log" \notin raced' => "log" \notin raced /\ LogWriters = {} /\ Toggling = {}
    BY <1>9 DEF ReadLogConfig, RaceForLog, diskVars
  <2>2. \/ /\ logFile = NoFile /\ at' = [at EXCEPT ![p] = "default"] /\ enabled' = enabled
        \/ /\ logFile \notin {NoFile, Half} /\ at' = [at EXCEPT ![p] = "version"]
           /\ enabled' = [enabled EXCEPT ![p] = logFile]
    BY <1>9 DEF ReadLogConfig, To
  <2>3. Toggling' = Toggling /\ \A q \in Process : q # p => at'[q] = at[q]
    BY <1>1, <1>2, <2>1, <2>2
  <2>4. LogReaders' = LogReaders \cup {p}
    BY <1>2, <1>4, <2>1, <2>2
  <2>5. CASE logFile = NoFile
    <3>1. at'[p] = "default" /\ enabled' = enabled /\ LogWriters' = LogWriters \cup {p}
      BY <1>2, <1>4, <2>2, <2>3, <2>5
    <3>2. \A q \in Process : ~Settled(q)'
      BY <2>3, <2>5, <3>1 DEF LogOrder, LogFound, Settled, PastLog, AfterMigration
    <3>3. LogFound' /\ LogKnown'
      BY <3>2 DEF LogFound, LogKnown
    <3>4. ASSUME "log" \notin raced' PROVE LogWriting'
      <4>1. LogReaders = {}
        BY <1>5, <1>4, <2>1, <2>5, <3>4 DEF LogOrder, LogFound
      <4>2. enabled[p] = DefaultConfig
        BY <2>1 DEF StartupShape, ProcessShape
      <4>. QED  BY <2>1, <2>3, <2>4, <2>5, <3>1, <3>4, <4>1, <4>2 DEF LogWriting
    <3>5. ASSUME "log" \notin raced' PROVE LogToggled'
      BY <2>1, <2>3, <3>5 DEF LogToggled
    <3>. QED  BY <3>3, <3>4, <3>5 DEF LogOrder
  <2>6. CASE logFile # NoFile
    <3>1. at'[p] = "version" /\ LogWriters' = LogWriters
      BY <1>2, <1>4, <2>1, <2>2, <2>3, <2>6
    <3>2. /\ enabled'[p] = logFile
          /\ \A q \in Process : q # p => enabled'[q] = enabled[q] /\ (Settled(q)' <=> Settled(q))
      BY <2>2, <2>3, <2>6 DEF StartupShape, ProcessShape, Settled
    <3>3. LogFound'
      BY <2>1, <2>6 DEF LogFound
    <3>4. ASSUME "log" \notin raced' PROVE LogWriting' /\ LogToggled'
      BY <2>1, <2>3, <3>1, <3>4 DEF LogWriting, LogToggled
    <3>5. ASSUME "log" \notin raced' PROVE LogKnown'
      BY <2>1, <2>3, <3>2, <3>5 DEF LogOrder, LogKnown
    <3>. QED  BY <3>3, <3>4, <3>5 DEF LogOrder
  <2>. QED  BY <2>5, <2>6
<1>10. ASSUME NEW p \in Process, WriteDefault(p)
       PROVE  LogOrder'
  <2>1. /\ UNCHANGED <<toggle, bound, raced, enabled>> /\ p \in LogWriters
        /\ \/ at[p] = "default" /\ logFile' = Half /\ at' = [at EXCEPT ![p] = "defaulting"]
           \/ at[p] = "defaulting" /\ logFile' = DefaultConfig /\ at' = [at EXCEPT ![p] = "version"]
    BY <1>4, <1>10 DEF WriteDefault, To
  <2>2. /\ Toggling' = Toggling /\ LogReaders' = LogReaders
        /\ \A q \in Process : q # p => at'[q] = at[q]
    BY <1>1, <1>2, <1>4, <2>1
  <2>3. LogFound'
    BY <1>2, <1>3, <2>1 DEF LogFound
  <2>4. ASSUME "log" \notin raced'
        PROVE  /\ LogReaders = {p} /\ Toggling = {} /\ enabled[p] = DefaultConfig
               /\ \A q \in Process : q # p => q \notin LogReaders'
    BY <2>1, <2>2, <2>4 DEF LogOrder, LogWriting
  <2>5. ASSUME "log" \notin raced' PROVE LogWriting'
    <3>1. ASSUME NEW q \in LogWriters' PROVE q = p /\ at'[p] = "defaulting" /\ logFile' = Half
      <4>1. q = p
        BY <1>4, <2>4, <2>5
      <4>2. at'[p] \in {"default", "defaulting"}
        BY <1>4, <4>1
      <4>. QED  BY <1>2, <2>1, <4>1, <4>2
    <3>. QED  BY <2>1, <2>2, <2>4, <2>5, <3>1 DEF LogWriting
  <2>6. ASSUME "log" \notin raced' PROVE LogToggled'
    BY <2>2, <2>4, <2>6 DEF LogToggled
  <2>7. ASSUME "log" \notin raced' PROVE LogKnown'
    <3>1. \A q \in Process : Settled(q)' => q = p
      BY <1>4, <2>4, <2>7 DEF Settled, PastLog, AfterMigration
    <3>2. logFile' \in {Half, DefaultConfig}
      BY <2>1
    <3>. QED  BY <2>1, <2>4, <2>7, <3>1, <3>2 DEF LogKnown
  <2>. QED  BY <2>3, <2>5, <2>6, <2>7 DEF LogOrder
<1>11. ASSUME NEW p \in Process, NEW r \in Request, NEW c \in Category, NEW on \in BOOLEAN,
              CopyConfig(p, r, c, on)
       PROVE  LogOrder'
  <2>1. /\ bound["https"] = p /\ toggle[r] = NoRequest /\ at[p] = "listen"
        /\ UNCHANGED <<logFile, bound, at, enabled>>
        /\ "log" \notin raced' => /\ "log" \notin raced
                                  /\ (LogReaders \ {p}) \cup Toggling = {}
    BY <1>2, <1>11 DEF CopyConfig, RaceForLog, Serving, diskVars
  <2>2. /\ toggle'[r].at = "open" /\ \A q \in Request : q # r => toggle'[q] = toggle[q]
    BY <1>11 DEF CopyConfig, StartupShape, RequestShape
  <2>3. /\ LogReaders' = LogReaders /\ LogWriters' = LogWriters
        /\ \A q \in Process : Settled(q)' <=> Settled(q)
    BY <2>1 DEF LogReaders, LogWriters, Settled
  <2>4. Toggling' = Toggling \cup {r}
    BY <1>1, <2>2
  <2>5. LogFound'
    BY <2>1, <2>3 DEF LogOrder, LogFound
  <2>6. ASSUME "log" \notin raced' PROVE LogReaders = {p} /\ Toggling' = {r} /\ LogWriters = {}
    BY <1>4, <2>1, <2>4, <2>6
  <2>7. ASSUME "log" \notin raced' PROVE LogWriting' /\ LogToggled'
    BY <2>1, <2>2, <2>3, <2>6, <2>7 DEF LogWriting, LogToggled
  <2>8. ASSUME "log" \notin raced' PROVE LogKnown'
    <3>1. Toggling = {}
      BY <2>1, <2>8
    <3>. QED  BY <2>1, <2>3, <2>8, <3>1 DEF LogOrder, LogKnown
  <2>. QED  BY <2>5, <2>7, <2>8 DEF LogOrder
<1>12. ASSUME NEW r \in Request, SaveLogFile(r)
       PROVE  LogOrder'
  <2>1. UNCHANGED <<bound, at, enabled, raced>>
    BY <1>12 DEF SaveLogFile
  <2>2. /\ \/ toggle[r].at = "open" /\ logFile' = Half /\ toggle'[r].at = "fill"
           \/ toggle[r].at = "fill" /\ logFile' = toggle[r].copy /\ toggle'[r].at = "memory"
        /\ toggle'[r].copy = toggle[r].copy /\ toggle[r].copy \in Config
        /\ \A q \in Request : q # r => toggle'[q] = toggle[q]
    BY <1>12 DEF SaveLogFile, StartupShape, RequestShape
  <2>3. /\ LogReaders' = LogReaders /\ LogWriters' = LogWriters /\ Toggling' = Toggling
        /\ r \in Toggling /\ \A q \in Process : Settled(q)' <=> Settled(q)
    BY <1>1, <2>1, <2>2 DEF LogReaders, LogWriters, Settled
  <2>4. LogFound'
    BY <1>3, <2>2 DEF LogFound
  <2>5. ASSUME "log" \notin raced'
        PROVE  Toggling = {r} /\ LogReaders = {bound["https"]} /\ LogWriters = {}
    BY <2>1, <2>3, <2>5 DEF LogOrder, LogToggled, LogWriting
  <2>6. ASSUME "log" \notin raced' PROVE LogWriting' /\ LogToggled' /\ LogKnown'
    BY <2>1, <2>2, <2>3, <2>5, <2>6 DEF LogWriting, LogToggled, LogKnown
  <2>. QED  BY <2>4, <2>6 DEF LogOrder
<1>13. ASSUME NEW r \in Request, SaveFails(r)
       PROVE  LogOrder'
  <2>1. UNCHANGED <<logFile, bound, at, enabled, raced>> /\ toggle[r].at \in {"open", "fill"}
    BY <1>13 DEF SaveFails, diskVars
  <2>2. toggle'[r].at = "idle" /\ \A q \in Request : q # r => toggle'[q] = toggle[q]
    BY <1>13 DEF SaveFails, StartupShape, RequestShape, NoRequest
  <2>3. /\ LogReaders' = LogReaders /\ LogWriters' = LogWriters /\ Toggling' = Toggling \ {r}
        /\ r \in Toggling /\ \A q \in Process : Settled(q)' <=> Settled(q)
    BY <1>1, <2>1, <2>2 DEF LogReaders, LogWriters, Settled
  <2>4. LogFound'
    BY <2>1, <2>3 DEF LogOrder, LogFound
  <2>5. ASSUME "log" \notin raced'
        PROVE  /\ Toggling = {r} /\ LogWriters = {} /\ Toggling' = {}
               /\ toggle[r].at = "fill" => logFile = Half
    BY <2>1, <2>3, <2>5 DEF LogOrder, LogToggled, LogWriting
  <2>6. ASSUME "log" \notin raced' PROVE LogWriting' /\ LogToggled'
    BY <2>3, <2>5, <2>6 DEF LogWriting, LogToggled
  <2>7. ASSUME "log" \notin raced' PROVE LogKnown'
    BY <2>1, <2>3, <2>5, <2>7 DEF LogOrder, LogKnown
  <2>. QED  BY <2>4, <2>6, <2>7 DEF LogOrder
<1>14. ASSUME NEW p \in Process, NEW r \in Request, SetConfig(p, r)
       PROVE  LogOrder'
  <2>1. /\ UNCHANGED <<logFile, bound, at, raced>> /\ bound["https"] = p
        /\ toggle[r].at = "memory" /\ at[p] = "listen"
    BY <1>2, <1>14 DEF SetConfig, Serving, diskVars
  <2>2. toggle'[r].at = "idle" /\ \A q \in Request : q # r => toggle'[q] = toggle[q]
    BY <1>14 DEF SetConfig, StartupShape, RequestShape, NoRequest
  <2>3. /\ LogReaders' = LogReaders /\ LogWriters' = LogWriters /\ Toggling' = Toggling \ {r}
        /\ r \in Toggling /\ \A q \in Process : Settled(q)' <=> Settled(q)
    BY <1>1, <2>1, <2>2 DEF LogReaders, LogWriters, Settled
  <2>4. enabled'[p] = toggle[r].copy
    BY <1>14 DEF SetConfig, InMemory, StartupShape, ProcessShape
  <2>5. LogFound'
    BY <2>1, <2>3 DEF LogOrder, LogFound
  <2>6. ASSUME "log" \notin raced'
        PROVE  /\ LogReaders = {p} /\ LogWriters = {} /\ Toggling' = {}
               /\ logFile = toggle[r].copy
    BY <2>1, <2>3, <2>6 DEF LogOrder, LogToggled, LogWriting
  <2>7. ASSUME "log" \notin raced' PROVE LogWriting' /\ LogToggled'
    BY <2>3, <2>6, <2>7 DEF LogWriting, LogToggled
  <2>8. ASSUME "log" \notin raced' PROVE LogKnown'
    <3>1. \A q \in Process : Settled(q)' => q = p
      BY <1>5, <2>3, <2>6, <2>8
    <3>. QED  BY <2>1, <2>4, <2>6, <2>8, <3>1 DEF LogKnown
  <2>. QED  BY <2>5, <2>7, <2>8 DEF LogOrder
<1>15. ASSUME NEW p \in Process,
              \/ ReadVersion(p) \/ ApplyMigration(p) \/ Migrated(p) \/ FilesExist(p)
              \/ GenerateCert(p) \/ WriteCert(p) \/ WriteKey(p) \/ LoadPair(p)
              \/ \E o \in Port : Listen(p, o)
       PROVE  LogOrder'
  <2>1. UNCHANGED <<logFile, enabled, toggle>> /\ ("log" \notin raced' => "log" \notin raced)
    BY <1>15 DEF ReadVersion, ApplyMigration, Migrated, FilesExist, GenerateCert, WriteCert,
       WriteKey, LoadPair, Listen, diskVars, certVars
  <2>2. \A q \in Process : at'[q] = at[q] \/ (at[q] \in PastLog /\ at'[q] \in PastLog)
    <3>1. CASE \/ ReadVersion(p) \/ ApplyMigration(p) \/ Migrated(p) \/ FilesExist(p)
               \/ GenerateCert(p) \/ WriteCert(p) \/ WriteKey(p) \/ LoadPair(p)
      <4>1. PICK s \in PastLog :
              at' = [at EXCEPT ![p] = s]
        <5>1. CASE ReadVersion(p)
          BY <5>1 DEF ReadVersion, To, PastLog
        <5>2. CASE ApplyMigration(p)
          BY <1>2, <5>2 DEF ApplyMigration, PastLog
        <5>3. CASE Migrated(p) \/ FilesExist(p) \/ LoadPair(p) \/ GenerateCert(p)
          BY <5>3 DEF Migrated, FilesExist, LoadPair, GenerateCert, FirstFile,
               To, PastLog, AfterMigration
        <5>4. CASE WriteCert(p) \/ WriteKey(p)
          BY <5>4 DEF WriteCert, WriteKey, To, PastLog, AfterMigration
        <5>. QED  BY <3>1, <5>1, <5>2, <5>3, <5>4
      <4>2. at[p] \in PastLog
        BY <3>1 DEF ReadVersion, ApplyMigration, Migrated, FilesExist, LoadPair,
             GenerateCert,
           WriteCert, WriteKey, Settled, PastLog, AfterMigration
      <4>3. at'[p] \in PastLog /\ \A q \in Process : q # p => at'[q] = at[q]
        BY <1>2, <4>1
      <4>. QED  BY <4>2, <4>3
    <3>2. CASE \E o \in Port : Listen(p, o)
      BY <3>2 DEF Listen
    <3>. QED  BY <1>15, <3>1, <3>2
  <2>3. CASE bound' = bound
    BY <1>6, <2>1, <2>2, <2>3
  <2>4. CASE \E o \in Port : Listen(p, o)
    <3>1. UNCHANGED <<logFile, enabled, toggle, at, raced>>
      BY <2>4 DEF Listen, diskVars
    <3>2. bound["https"] # NoProcess => bound'["https"] = bound["https"]
      BY <1>2, <2>4 DEF Listen
    <3>3. LogReaders' = LogReaders /\ LogWriters' = LogWriters /\ Toggling' = Toggling
      BY <3>1 DEF LogReaders, LogWriters, Toggling
    <3>4. LogToggled => LogToggled'
      <4>1. LogToggled /\ Toggling # {} => bound["https"] \in Process
        BY <1>4 DEF LogToggled
      <4>. QED  BY <1>3, <3>1, <3>2, <3>3, <4>1 DEF LogToggled
    <3>5. \A q \in Process : Settled(q)' <=> Settled(q)
      BY <3>1 DEF Settled
    <3>. QED  BY <3>1, <3>3, <3>4, <3>5 DEF LogOrder, LogFound, LogWriting, LogKnown
  <2>. QED
    BY <1>15, <2>3, <2>4 DEF ReadVersion, ApplyMigration, Migrated, FilesExist,
         GenerateCert,
       WriteCert, WriteKey, LoadPair
<1>16. CASE UNCHANGED startupVars
  <2>1. UNCHANGED <<logFile, enabled, toggle, bound, raced, at>>
    BY <1>16 DEF startupVars
  <2>2. \A p \in Process : at'[p] = at[p]
    BY <2>1
  <2>. QED  BY <1>6, <2>1, <2>2
<1>. QED
  BY <1>7, <1>8, <1>9, <1>10, <1>11, <1>12, <1>13, <1>14, <1>15, <1>16
     DEF StartupNext, ProcessStep, MigrationFails, GivesUpStarting

-----------------------------------------------------------------------------
(* StartupInv is inductive: what a process has found on disk, and what it   *)
(* is about to write there.                                                 *)
THEOREM StartupInvariant == StartupSpec => []StartupInv
<1>1. StartupInit => StartupInv
  <2>. SUFFICES ASSUME StartupInit PROVE StartupInv
    OBVIOUS
  <2>. USE StartupAssumption DEF StartupInit
  <2>1. StartupShape
    <3>1. DiskShape
      BY DEF DiskShape
    <3>2. ProcessShape
      BY DefaultTyped DEF ProcessShape, Port, Stages
    <3>3. RequestShape
      BY DefaultTyped DEF RequestShape, NoRequest
    <3>. QED  BY <3>1, <3>2, <3>3 DEF StartupShape
  <2>2. SchemaGrows
    <3>1. schema = 1 .. 0 /\ 0 \in 0 .. Latest
      OBVIOUS
    <3>. QED  BY <3>1 DEF SchemaGrows, AfterMigration
  <2>3. CertOrder
    BY DEF CertOrder, CertWriters
  <2>4. LogOrder
    BY DEF LogOrder, LogFound, LogWriting, LogToggled, LogKnown, LogWriters,
         LogReaders, Toggling, Settled, PastLog, AfterMigration, NoRequest
  <2>. QED  BY <2>1, <2>2, <2>3, <2>4 DEF StartupInv
<1>2. StartupInv /\ [StartupNext]_startupVars => StartupInv'
  BY DiskShapeStep, ProcessShapeStep, RequestShapeStep, SchemaGrowsStep,
       CertOrderStep, LogOrderStep
     DEF StartupInv, StartupShape
<1>. QED  BY <1>1, <1>2, PTL DEF StartupSpec

(* The types of files, processes and requests. *)
THEOREM StartupTypeCorrect == StartupSpec => []StartupTypeOK
<1>1. StartupInv => StartupTypeOK
  BY StartupAssumption DEF StartupInv, StartupShape, DiskShape, ProcessShape, RequestShape,
     SchemaGrows, StartupTypeOK
<1>. QED  BY <1>1, StartupInvariant, PTL

(* Whoever listens serves the whole schema, for any number of processes and *)
(* migrations (migrate).                                                    *)
THEOREM WholeSchemaServed == StartupSpec => []ServesSchema
<1>1. StartupInv => ServesSchema
  BY DEF StartupInv, SchemaGrows, AfterMigration, ServesSchema
<1>. QED  BY <1>1, StartupInvariant, PTL

(* A whole certificate and a whole key are of one pair, unless two processes *)
(* wrote them at once (EnsureCert).                                          *)
THEOREM CertificateUsable == StartupSpec => []CertPairs
<1>1. StartupInv => CertPairs
  BY DEF StartupInv, CertOrder, CertPairs
<1>. QED  BY <1>1, StartupInvariant, PTL

(* What is logged is what the file says, unless two raced for it (logx.go). *)
THEOREM LogConfigKept == StartupSpec => []LogAgrees
<1>1. StartupInv => LogAgrees
  BY StartupAssumption DEF StartupInv, StartupShape, ProcessShape, LogOrder,
       LogKnown, LogAgrees,
     Settled, PastLog, AfterMigration, Serving, Port
<1>. QED  BY <1>1, StartupInvariant, PTL

=============================================================================
