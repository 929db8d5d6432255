----------------------- MODULE MemcachedBackendProofs -----------------------
(***************************************************************************)
(* Proofs about MemcachedBackend: its types, that no count is lost in a race, *)
(* and that every key at the server can be found by a clear.                *)
(***************************************************************************)
EXTENDS MemcachedBackend, TLAPS

----------------------------------------------------------------------------
(* Types: a call has the record of its operation, and is at a key only with   *)
(* the requests of that operation.                                          *)

CountCall  == [op : {"count"}, delta : {1, -1}, exptime : Nat]
SetCall    == [op : {"set"}, exptime : Nat]
ExpireCall == [op : {"expire"}, exptime : Nat \ {0}, seen : Int \cup {Absent}]
DeleteCall == [op : {"delete"}]
ClearCall  == [op : {"clear"}, shard : 1 .. Shards + 1, todo : SUBSET Keys, names : BOOLEAN,
               late : SUBSET Keys, owed : SUBSET Keys]

Call == {Idle} \cup CountCall \cup SetCall \cup ExpireCall \cup DeleteCall \cup ClearCall

Places == {"done", "try", "create", "again", "put", "delete", "expire", "rewrite"} \cup Tracking

Fits(record, where) ==
  /\ where \in Places
  /\ where \in {"try", "create", "again"} => record \in CountCall
  /\ where = "put" => record \in SetCall
  /\ where \in Tracking => record \in CountCall \cup SetCall
  /\ where \in {"expire", "rewrite"} => record \in ExpireCall
  /\ where = "rewrite" => record.seen \in Int
  /\ where = "delete" => record \in DeleteCall

Lives == (Nat \ {0}) \cup {Forever}

ServerOK ==
  /\ value \in [Keys -> Int \cup {Absent}] /\ left \in [Keys -> Lives]
  /\ \A k \in Keys : ~Live(k) => left[k] = Forever
  /\ counted \in [Keys -> Int]
  /\ clobbered \in [Keys -> BOOLEAN] /\ raced \in [Keys -> BOOLEAN]

TrackingOK ==
  /\ tracking \in [1 .. Shards -> SUBSET Keys]
  /\ \A s \in 1 .. Shards : \A k \in tracking[s] : ShardOf[k] = s

CallsOK ==
  /\ call \in [Clients -> Call] /\ at \in [Clients -> [Keys -> Places]]
  /\ \A c \in Clients, k \in Keys : Fits(call[c], at[c][k])
  /\ \A c \in Clients, j, k \in Keys :
       at[c][j] \in {"expire", "rewrite"} /\ at[c][k] \in {"expire", "rewrite"} => j = k

Types == lib \in Libraries /\ ServerOK /\ TrackingOK /\ CallsOK

\* The operation tells the records apart.
LEMMA Kinds ==
  /\ \A r \in CountCall : r.op = "count"
  /\ \A r \in SetCall : r.op = "set"
  /\ \A r \in ExpireCall : r.op = "expire"
  /\ \A r \in DeleteCall : r.op = "delete"
  /\ \A r \in ClearCall : r.op = "clear"
  /\ Idle.op = "idle"
  /\ \A r \in Call : r.op = "clear" => r \in ClearCall
<1>1. /\ \A r \in CountCall : r.op = "count"
      /\ \A r \in SetCall : r.op = "set"
      /\ \A r \in ExpireCall : r.op = "expire"
      /\ \A r \in DeleteCall : r.op = "delete"
      /\ \A r \in ClearCall : r.op = "clear"
      /\ Idle.op = "idle"
  BY DEF CountCall, SetCall, ExpireCall, DeleteCall, ClearCall, Idle
<1> QED
  BY <1>1 DEF Call

LEMMA TypesGiveTypeOK == Types => TypeOK
<1> SUFFICES ASSUME Types PROVE TypeOK
  OBVIOUS
<1>1. \A c \in Clients : Clearing(c) => call[c].shard \in 1 .. Shards + 1
  <2>1. \A r \in ClearCall : r.shard \in 1 .. Shards + 1
    BY DEF ClearCall
  <2> QED
    BY <2>1, Kinds DEF Types, CallsOK, Clearing
<1> QED
  BY <1>1 DEF Types, TypeOK, ServerOK, TrackingOK, CallsOK, Lives, Places

\* What the call at a key is.
LEMMA CallAt ==
  ASSUME CallsOK, NEW c \in Clients, NEW k \in Keys
  PROVE  /\ call[c] \in Call /\ at[c][k] \in Places
         /\ Clearing(c) => call[c] \in ClearCall /\ at[c][k] = "done"
         /\ call[c] = Idle => at[c][k] = "done"
         /\ at[c][k] \in {"try", "create", "again"} => call[c] \in CountCall
         /\ at[c][k] = "put" => call[c] \in SetCall
         /\ at[c][k] \in Tracking => call[c] \in CountCall \cup SetCall
         /\ at[c][k] \in {"expire", "rewrite"} => call[c] \in ExpireCall
         /\ at[c][k] = "rewrite" => call[c].seen \in Int
<1>1. Fits(call[c], at[c][k]) /\ call[c] \in Call
  BY DEF CallsOK
<1> QED
  BY <1>1, Kinds DEF Fits, Clearing, Places, Tracking

\* Keys that vanish.
LEMMA RemoveTypes ==
  ASSUME ServerOK, NEW ks, Remove(ks)
  PROVE  ServerOK'
BY DEF ServerOK, Remove, Vanish, Live, Lives

\* A key that is put, or would be.
LEMMA PutTypes ==
  ASSUME ServerOK, NEW k \in Keys, NEW v \in Int, NEW exptime \in Nat, NEW older \in BOOLEAN,
         Put(k, v, exptime, older)
  PROVE  ServerOK'
<1>1. Lifetime(exptime) \in Nat \cup {Forever}
  BY DEF Lifetime
<1>2. CASE Lifetime(exptime) = 0
  BY <1>2, RemoveTypes DEF Put
<1>3. CASE Lifetime(exptime) # 0
  BY <1>1, <1>3, MemcachedAssumption DEF Put, ServerOK, Live, Lives
<1> QED
  BY <1>2, <1>3

\* A call goes on at a key, and others' records change only in what clears keep.
LEMMA GoesOn ==
  ASSUME CallsOK, NEW c \in Clients, NEW k \in Keys, NEW where, Goto(c, k, where),
         where \in {"expire", "rewrite"} => at[c][k] = "expire",
         call' \in [Clients -> Call], Fits(call'[c], where),
         \A d \in Clients :
           \/ call'[d] = call[d]
           \/ Clearing(d) /\ call'[d] \in ClearCall
           \/ d = c /\ \A j \in Keys \ {k} : Fits(call'[c], at[c][j])
  PROVE  CallsOK'
<1>1. where \in Places
  BY DEF Fits
<1>2. at' \in [Clients -> [Keys -> Places]]
  BY <1>1 DEF Goto, CallsOK
<1>3. ASSUME NEW d \in Clients, NEW j \in Keys PROVE Fits(call'[d], at'[d][j])
  <2>1. CASE d = c /\ j = k
    BY <2>1 DEF Goto, CallsOK
  <2>2. CASE ~(d = c /\ j = k)
    <3>1. at'[d][j] = at[d][j] /\ Fits(call[d], at[d][j]) /\ at[d][j] \in Places
      BY <2>2 DEF Goto, CallsOK
    <3>2. CASE Clearing(d) /\ call'[d] \in ClearCall
      <4>1. at[d][j] = "done"
        BY <3>2, CallAt
      <4> QED
        BY <3>1, <4>1 DEF Fits, Places, Tracking
    <3>3. CASE call'[d] = call[d]
      BY <3>1, <3>3
    <3>4. CASE d = c /\ \A i \in Keys \ {k} : Fits(call'[c], at[c][i])
      BY <2>2, <3>1, <3>4
    <3> QED
      BY <3>2, <3>3, <3>4
  <2> QED
    BY <2>1, <2>2
<1>4. \A d \in Clients, i, j \in Keys :
        at'[d][i] \in {"expire", "rewrite"} /\ at'[d][j] \in {"expire", "rewrite"} => i = j
  BY DEF Goto, CallsOK
<1> QED
  BY <1>2, <1>3, <1>4 DEF CallsOK

\* What a put makes of the calls.
LEMMA PutCalls ==
  ASSUME CallsOK, NEW k \in Keys, NEW v, NEW exptime, NEW older, Put(k, v, exptime, older)
  PROVE  /\ call' \in [Clients -> Call]
         /\ \A d \in Clients : call'[d] = call[d] \/ (Clearing(d) /\ call'[d] \in ClearCall)
<1>1. CASE Lifetime(exptime) = 0
  BY <1>1 DEF Put, CallsOK
<1>2. CASE Lifetime(exptime) # 0
  <2>1. call' = Spared(k)
    BY <1>2 DEF Put
  <2>2. ASSUME NEW d \in Clients
        PROVE  call'[d] = call[d] \/ (Clearing(d) /\ call'[d] \in ClearCall)
    <3>1. CASE Clearing(d)
      <4>1. call[d] \in ClearCall
        BY <3>1, Kinds DEF Clearing, CallsOK
      <4> QED
        BY <2>1, <3>1, <4>1 DEF Spared, ClearCall
    <3>2. CASE ~Clearing(d)
      BY <2>1, <3>2 DEF Spared
    <3> QED
      BY <3>1, <3>2
  <2> QED
    BY <2>1, <2>2 DEF Spared, CallsOK, Call
<1> QED
  BY <1>1, <1>2

\* A call begins.
LEMMA BeginTypes ==
  ASSUME Types, NEW c \in Clients, NEW record \in Call, NEW ks, NEW first \in Places,
         Begin(c, record, ks, first), Fits(record, first),
         first # "rewrite", first = "expire" => \E k \in Keys : ks = {k}
  PROVE  Types'
<1>1. ServerOK' /\ TrackingOK' /\ lib' \in Libraries
  BY DEF Begin, Types, ServerOK, TrackingOK, Live
<1>2. Fits(record, "done")
  BY DEF Fits, Places, Tracking
<1>3. call' = [call EXCEPT ![c] = record]
      /\ at' = [at EXCEPT ![c] = [k \in Keys |-> IF k \in ks THEN first ELSE "done"]]
  BY DEF Begin
<1>4. call' \in [Clients -> Call] /\ at' \in [Clients -> [Keys -> Places]]
  BY <1>3 DEF Types, CallsOK, Places
<1>5. \A d \in Clients, k \in Keys : Fits(call'[d], at'[d][k])
  BY <1>2, <1>3 DEF Types, CallsOK
<1>6. \A d \in Clients, i, j \in Keys :
        at'[d][i] \in {"expire", "rewrite"} /\ at'[d][j] \in {"expire", "rewrite"} => i = j
  BY <1>3 DEF Types, CallsOK
<1> QED
  BY <1>1, <1>4, <1>5, <1>6 DEF Types, CallsOK

LEMMA EveryBeginTypes ==
  ASSUME Types, NEW c \in Clients,
         BeginCount(c) \/ BeginSet(c) \/ BeginExpire(c) \/ BeginDelete(c) \/ BeginClear(c)
  PROVE  Types'
<1> USE DEF Call, Places, Tracking
<1>1. CASE BeginCount(c)
  <2>1. PICK k \in Keys, delta \in {1, -1}, exptime \in {0} \cup TTLs :
          Begin(c, [op |-> "count", delta |-> delta, exptime |-> exptime], {k}, "try")
    BY <1>1 DEF BeginCount
  <2>2. [op |-> "count", delta |-> delta, exptime |-> exptime] \in CountCall
    BY MemcachedAssumption DEF CountCall
  <2> QED
    BY <2>1, <2>2, BeginTypes DEF Fits
<1>2. CASE BeginSet(c)
  <2>1. PICK ks \in (SUBSET Keys) \ {{}}, exptime \in {0} \cup TTLs :
          Begin(c, [op |-> "set", exptime |-> exptime], ks, "put")
    BY <1>2 DEF BeginSet
  <2>2. [op |-> "set", exptime |-> exptime] \in SetCall
    BY MemcachedAssumption DEF SetCall
  <2>3. Fits([op |-> "set", exptime |-> exptime], "put")
    BY <2>2 DEF Fits
  <2>4. [op |-> "set", exptime |-> exptime] \in Call /\ "put" \in Places
    BY <2>2
  <2> HIDE DEF Call, Places
  <2> QED
    BY <2>1, <2>3, <2>4, BeginTypes
<1>3. CASE BeginExpire(c)
  <2>1. PICK k \in Keys, exptime \in TTLs :
          Begin(c, [op |-> "expire", exptime |-> exptime, seen |-> Absent], {k}, "expire")
    BY <1>3 DEF BeginExpire
  <2>2. [op |-> "expire", exptime |-> exptime, seen |-> Absent] \in ExpireCall
    BY MemcachedAssumption DEF ExpireCall
  <2> QED
    BY <2>1, <2>2, BeginTypes DEF Fits
<1>4. CASE BeginDelete(c)
  <2>1. PICK k \in Keys : Begin(c, [op |-> "delete"], {k}, "delete")
    BY <1>4 DEF BeginDelete
  <2>2. [op |-> "delete"] \in DeleteCall
    BY DEF DeleteCall
  <2> QED
    BY <2>1, <2>2, BeginTypes DEF Fits
<1>5. CASE BeginClear(c)
  <2> DEFINE record == [op |-> "clear", shard |-> 1, todo |-> {}, names |-> FALSE, late |-> {}, owed |-> Owed]
  <2>1. Begin(c, record, {}, "done")
    BY <1>5 DEF BeginClear
  <2>2. record \in ClearCall
    <3>1. Owed \subseteq Keys
      BY DEF Owed
    <3>2. 1 \in 1 .. Shards + 1
      BY MemcachedAssumption
    <3> QED
      BY <3>1, <3>2 DEF ClearCall
  <2> HIDE DEF record
  <2> QED
    BY <2>1, <2>2, BeginTypes DEF Fits
<1> QED
  BY <1>1, <1>2, <1>3, <1>4, <1>5

\* A call is over.
LEMMA EndTypes ==
  ASSUME Types, NEW c \in Clients, End(c) \/ Abandon(c)
  PROVE  Types'
<1>1. ServerOK' /\ TrackingOK' /\ lib' \in Libraries
  BY DEF End, Abandon, Types, ServerOK, TrackingOK, Live
<1>2. call' = [call EXCEPT ![c] = Idle] /\ \A d \in Clients, k \in Keys : d # c => at'[d][k] = at[d][k]
  BY DEF End, Abandon, Types, CallsOK
<1>3. at' \in [Clients -> [Keys -> Places]] /\ \A k \in Keys : at'[c][k] = "done"
  BY DEF End, Abandon, Types, CallsOK, Places
<1>4. \A d \in Clients, k \in Keys : Fits(call'[d], at'[d][k])
  <2>1. Fits(Idle, "done")
    BY DEF Fits, Places, Tracking
  <2> QED
    BY <2>1, <1>2, <1>3 DEF Types, CallsOK
<1> QED
  BY <1>1, <1>2, <1>3, <1>4 DEF Types, CallsOK, Call

\* A request that puts a key.
LEMMA PutsTypes ==
  ASSUME Types, NEW c \in Clients, NEW k \in Keys, NEW v \in Int, NEW older \in BOOLEAN,
         NEW where \in {"done", "append"},
         call[c] \in CountCall \cup SetCall \/ (call[c] \in ExpireCall /\ where = "done"),
         Put(k, v, call[c].exptime, older), Goto(c, k, where), UNCHANGED <<lib, tracking>>
  PROVE  Types'
<1>1. call[c].exptime \in Nat /\ ~Clearing(c)
  BY Kinds DEF Clearing, CountCall, SetCall, ExpireCall
<1>2. Fits(call[c], where)
  BY DEF Fits, Places, Tracking
<1>3. ServerOK'
  BY <1>1, PutTypes DEF Types
<1>4. /\ call' \in [Clients -> Call]
      /\ \A d \in Clients : call'[d] = call[d] \/ (Clearing(d) /\ call'[d] \in ClearCall)
  BY PutCalls DEF Types
<1>5. CallsOK'
  BY <1>1, <1>2, <1>4, GoesOn DEF Types
<1> QED
  BY <1>3, <1>5 DEF Types, TrackingOK

\* The requests of a count.
LEMMA CountTypes ==
  ASSUME Types, NEW c \in Clients, NEW k \in Keys, Count(c, k) \/ Create(c, k)
  PROVE  Types'
<1>1. call[c] \in CountCall
  BY CallAt DEF Count, Create, Types
<1>2. call[c].delta \in Int /\ call[c].exptime \in Nat
  BY <1>1 DEF CountCall
<1>3. TrackingOK' /\ lib' \in Libraries
  BY DEF Count, Create, Types, TrackingOK
<1>4. \A where \in {"done", "create", "again", "append"} : Fits(call[c], where)
  BY <1>1 DEF Fits, Places, Tracking
<1>5. CASE Count(c, k)
  <2>1. ServerOK'
    BY <1>2, <1>5, MemcachedAssumption DEF Count, Counts, Plus, Live, Types, ServerOK
  <2>2. PICK where \in {"done", "create"} : Goto(c, k, where)
    BY <1>5 DEF Count
  <2>3. call' = call
    BY <1>5 DEF Count
  <2>4. CallsOK'
    BY <1>4, <2>2, <2>3, GoesOn DEF Types, CallsOK
  <2> QED
    BY <1>3, <2>1, <2>4 DEF Types
<1>6. CASE Create(c, k)
  <2>1. CASE Live(k)
    <3>1. ServerOK' /\ call' = call /\ Goto(c, k, "again")
      BY <1>6, <2>1 DEF Create, Types, ServerOK, Live
    <3>2. CallsOK'
      BY <1>4, <3>1, GoesOn DEF Types, CallsOK
    <3> QED
      BY <1>3, <3>1, <3>2 DEF Types
  <2>2. CASE ~Live(k)
    <3>1. Put(k, call[c].delta, call[c].exptime, FALSE) /\ Goto(c, k, Stored) /\ UNCHANGED <<lib, tracking>>
      BY <1>6, <2>2 DEF Create
    <3>2. Stored \in {"done", "append"}
      BY DEF Stored
    <3> QED
      BY <1>1, <1>2, <3>1, <3>2, PutsTypes
  <2> QED
    BY <2>1, <2>2
<1> QED
  BY <1>5, <1>6

\* A set's request.
LEMMA StoreTypes ==
  ASSUME Types, NEW c \in Clients, NEW k \in Keys, Store(c, k)
  PROVE  Types'
<1>1. call[c] \in SetCall /\ Put(k, 0, call[c].exptime, FALSE) /\ Goto(c, k, Stored)
  BY CallAt DEF Store, Types
<1>2. Stored \in {"done", "append"} /\ UNCHANGED <<lib, tracking>>
  BY DEF Stored, Store
<1>3. call[c] \in CountCall \cup SetCall /\ 0 \in Int
  BY <1>1
<1> QED
  BY <1>1, <1>2, <1>3, PutsTypes

\* The second request of aiomcache's expire.
LEMMA RewriteTypes ==
  ASSUME Types, NEW c \in Clients, NEW k \in Keys, Rewrite(c, k)
  PROVE  Types'
<1>1. /\ call[c] \in ExpireCall /\ call[c].seen \in Int
      /\ Put(k, call[c].seen, call[c].exptime, TRUE) /\ Goto(c, k, "done")
      /\ UNCHANGED <<lib, tracking>>
  BY CallAt DEF Rewrite, Types
<1> QED
  BY <1>1, PutsTypes

\* Requests that put nothing.
LEMMA OtherTypes ==
  ASSUME Types, NEW c \in Clients, NEW k \in Keys,
         Delete(c, k) \/ Touch(c, k) \/ ReadToExpire(c, k) \/ Track(c, k)
  PROVE  Types'
<1>1. lib' \in Libraries
  BY DEF Delete, Touch, ReadToExpire, Track, Types
<1>2. CASE Delete(c, k)
  <2>1. ServerOK' /\ TrackingOK' /\ call' = call /\ Goto(c, k, "done")
    BY <1>2, RemoveTypes DEF Delete, Types, TrackingOK
  <2>2. Fits(call[c], "done")
    BY DEF Fits, Places, Tracking
  <2> QED
    BY <1>1, <2>1, <2>2, GoesOn DEF Types, CallsOK
<1>3. CASE Touch(c, k)
  <2>1. call[c].exptime \in Nat \ {0}
    BY <1>3, CallAt DEF Touch, Types, ExpireCall
  <2>2. ServerOK'
    <3>1. CASE Live(k) /\ Lifetime(call[c].exptime) # 0
      BY <1>3, <2>1, <3>1 DEF Touch, Types, ServerOK, Live, Lives
    <3>2. CASE ~(Live(k) /\ Lifetime(call[c].exptime) # 0)
      BY <1>3, <3>2, RemoveTypes DEF Touch, Types
    <3> QED
      BY <3>1, <3>2
  <2>3. TrackingOK' /\ call' = call /\ Goto(c, k, "done")
    BY <1>3 DEF Touch, Types, TrackingOK
  <2>4. Fits(call[c], "done")
    BY DEF Fits, Places, Tracking
  <2> QED
    BY <1>1, <2>2, <2>3, <2>4, GoesOn DEF Types, CallsOK
<1>4. CASE ReadToExpire(c, k)
  <2>1. ServerOK' /\ TrackingOK'
    BY <1>4 DEF ReadToExpire, Types, ServerOK, TrackingOK, Live
  <2>2. call[c] \in ExpireCall /\ call' = [call EXCEPT ![c].seen = value[k]]
    BY <1>4, CallAt DEF ReadToExpire, Types
  <2>3. call'[c] \in ExpireCall /\ call'[c].seen = value[k]
    BY <2>2 DEF ExpireCall, Types, ServerOK, CallsOK
  <2>4. PICK where \in {"rewrite", "done"} : Goto(c, k, where) /\ Fits(call'[c], where)
    BY <1>4, <2>3 DEF ReadToExpire, Types, ServerOK, Live, Fits, Places, Tracking
  <2>9. at[c][k] = "expire"
    BY <1>4 DEF ReadToExpire
  <2>5. call' \in [Clients -> Call] /\ \A d \in Clients \ {c} : call'[d] = call[d]
    BY <2>2, <2>3 DEF Types, CallsOK, Call
  <2>6. \A j \in Keys : Fits(call[c], at[c][j]) /\ call[c] \notin CountCall \cup SetCall \cup DeleteCall
    BY <2>2, Kinds DEF Types, CallsOK
  <2>7. \A j \in Keys \ {k} : at[c][j] \notin {"expire", "rewrite"}
    BY <1>4 DEF ReadToExpire, Types, CallsOK
  <2>8. \A j \in Keys \ {k} : Fits(call'[c], at[c][j])
    BY <2>6, <2>7 DEF Fits
  <2> QED
    BY <1>1, <2>1, <2>3, <2>4, <2>5, <2>8, <2>9, GoesOn DEF Types, CallsOK
<1>5. CASE Track(c, k)
  <2>1. ServerOK'
    BY <1>5 DEF Track, Types, ServerOK, Live
  <2>2. TrackingOK'
    BY <1>5 DEF Track, Types, TrackingOK
  <2>3. call[c] \in CountCall \cup SetCall
    BY <1>5, CallAt DEF Track, Types
  <2>4. /\ call' \in [Clients -> Call]
        /\ \A d \in Clients : call'[d] = call[d] \/ (Clearing(d) /\ call'[d] \in ClearCall)
    <3>1. \A d \in Clients : call'[d] = call[d] \/ (Clearing(d) /\ call'[d] \in ClearCall)
      <4> SUFFICES ASSUME NEW d \in Clients, call'[d] # call[d]
                   PROVE  Clearing(d) /\ call'[d] \in ClearCall
        OBVIOUS
      <4>1. Clearing(d) /\ call'[d] = [call[d] EXCEPT !.late = @ \cup {k}]
        BY <1>5 DEF Track
      <4>2. call[d] \in ClearCall
        BY <4>1, Kinds DEF Clearing, Types, CallsOK
      <4> QED
        BY <4>1, <4>2 DEF ClearCall
    <3> QED
      BY <1>5, <3>1 DEF Track, Types, CallsOK, Call
  <2>5. PICK where \in {"done", "name", "append again"} : Goto(c, k, where) /\ Fits(call[c], where)
    BY <1>5, <2>3 DEF Track, After, Fits, Places, Tracking
  <2>6. ~Clearing(c)
    BY <2>3, Kinds DEF Clearing
  <2> QED
    BY <1>1, <2>1, <2>2, <2>4, <2>5, <2>6, GoesOn DEF Types
<1> QED
  BY <1>2, <1>3, <1>4, <1>5

\* Keys expire.
LEMMA TickTypes ==
  ASSUME Types, Tick
  PROVE  Types'
<1>1. ServerOK'
  BY DEF Types, ServerOK, Tick, Vanish, Live, Lives
<1> QED
  BY <1>1 DEF Types, TrackingOK, CallsOK, Tick

\* What the steps of a clear make of its record.
LEMMA ClearRecords ==
  ASSUME Types, NEW c \in Clients, Clearing(c)
  PROVE  /\ call[c] \in ClearCall
         /\ \A todo \in SUBSET Keys, names \in BOOLEAN :
              todo # {} \/ names \/ call[c].shard <= Shards => GoOn(c, todo, names) \in ClearCall
         /\ call[c].shard <= Shards => Skip(call[c]) \in ClearCall
<1>1. call[c] \in ClearCall
  BY Kinds DEF Clearing, Types, CallsOK
<1>2. call[c].shard \in 1 .. Shards + 1 /\ Shards \in Nat
  BY <1>1, MemcachedAssumption DEF ClearCall
<1>3. ASSUME NEW todo \in SUBSET Keys, NEW names \in BOOLEAN, todo # {} \/ names \/ call[c].shard <= Shards
      PROVE  GoOn(c, todo, names) \in ClearCall
  <2>1. (IF todo # {} \/ names THEN call[c].shard ELSE call[c].shard + 1) \in 1 .. Shards + 1
    BY <1>2, <1>3
  <2> QED
    BY <1>1, <2>1 DEF GoOn, ClearCall
<1>4. call[c].shard <= Shards => Skip(call[c]) \in ClearCall
  BY <1>1, <1>2 DEF Skip, ClearCall
<1> QED
  BY <1>1, <1>3, <1>4

\* A clear that is through all shards has nothing left to delete.
ClearsOK ==
  \A c \in Clients : Clearing(c) /\ call[c].shard > Shards => call[c].todo = {} /\ ~call[c].names

LEMMA ClearTypes ==
  ASSUME Types, ClearsOK, NEW c \in Clients, ReadNames(c) \/ DeleteNamed(c) \/ DeleteNames(c)
  PROVE  Types' /\ Clearing(c) /\ call'[c] \in ClearCall /\ call' = [call EXCEPT ![c] = call'[c]]
<1>1. Clearing(c) /\ call[c] \in ClearCall
  BY ClearRecords DEF ReadNames, DeleteNamed, DeleteNames
<1>2. call[c].shard \in 1 .. Shards + 1 /\ call[c].todo \in SUBSET Keys /\ call[c].names \in BOOLEAN
      /\ Shards \in Nat
  BY <1>1, MemcachedAssumption DEF ClearCall
<1>3. ServerOK'
  <2>1. CASE ReadNames(c)
    BY <2>1 DEF ReadNames, Types, ServerOK, Live
  <2>2. CASE DeleteNamed(c)
    BY <2>2, RemoveTypes DEF DeleteNamed, Types
  <2>3. CASE DeleteNames(c)
    BY <2>3 DEF DeleteNames, Types, ServerOK, Live
  <2> QED
    BY <2>1, <2>2, <2>3
<1>4. TrackingOK' /\ lib' \in Libraries
  BY DEF ReadNames, DeleteNamed, DeleteNames, Types, TrackingOK
<1>5. call'[c] \in ClearCall /\ call' = [call EXCEPT ![c] = call'[c]]
  <2>1. CASE ReadNames(c)
    <3> DEFINE names == tracking[call[c].shard]
    <3>1. /\ call[c].shard <= Shards /\ names \in SUBSET Keys
          /\ call' = [call EXCEPT ![c] = IF names = {} THEN Skip(@)
                                         ELSE [@ EXCEPT !.todo = names, !.names = TRUE, !.late = {}]]
      BY <1>2, <2>1 DEF ReadNames, Types, TrackingOK
    <3> HIDE DEF names
    <3>2. [call[c] EXCEPT !.todo = names, !.names = TRUE, !.late = {}] \in ClearCall
      BY <1>1, <3>1 DEF ClearCall
    <3>3. Skip(call[c]) \in ClearCall
      BY <1>1, <3>1, ClearRecords
    <3> QED
      BY <3>1, <3>2, <3>3 DEF Types, CallsOK
  <2>2. CASE DeleteNamed(c)
    <3>1. PICK k \in call[c].todo : call' = [call EXCEPT ![c] = GoOn(c, call[c].todo \ {k}, call[c].names)]
      BY <1>1, <2>2 DEF DeleteNamed, Types, CallsOK
    <3>2. call[c].shard <= Shards
      BY <1>1, <1>2, <3>1 DEF ClearsOK
    <3>3. call[c].todo \ {k} \in SUBSET Keys
      BY <1>2
    <3>4. GoOn(c, call[c].todo \ {k}, call[c].names) \in ClearCall
      BY <1>1, <1>2, <3>2, <3>3, ClearRecords
    <3> QED
      BY <3>1, <3>4 DEF Types, CallsOK
  <2>3. CASE DeleteNames(c)
    <3>1. call' = [call EXCEPT ![c] = GoOn(c, call[c].todo, FALSE)] /\ call[c].names
      BY <2>3 DEF DeleteNames, Types, CallsOK
    <3>2. call[c].shard <= Shards
      BY <1>1, <1>2, <3>1 DEF ClearsOK
    <3>3. GoOn(c, call[c].todo, FALSE) \in ClearCall
      BY <1>1, <1>2, <3>2, ClearRecords
    <3> QED
      BY <3>1, <3>3 DEF Types, CallsOK
  <2> QED
    BY <2>1, <2>2, <2>3
<1>6. at' = at
  BY DEF ReadNames, DeleteNamed, DeleteNames
<1>7. \A d \in Clients, k \in Keys : Fits(call'[d], at'[d][k])
  <2>1. \A k \in Keys : at[c][k] = "done"
    BY <1>1, CallAt DEF Types
  <2>2. Fits(call'[c], "done")
    BY DEF Fits, Places, Tracking
  <2> QED
    BY <1>5, <1>6, <2>1, <2>2 DEF Types, CallsOK
<1>8. CallsOK'
  BY <1>5, <1>6, <1>7 DEF Types, CallsOK, Call
<1> QED
  BY <1>1, <1>3, <1>4, <1>5, <1>8 DEF Types

----------------------------------------------------------------------------
(* Tracking: a name that is in the shard a clear works on was read by it, or   *)
(* came since, or its key needs no name.                                    *)

Excused(k) == ~Live(k) \/ raced[k] \/ clobbered[k] \/ \E d \in Clients : at[d][k] \in Tracking

Settled(k) == /\ k \in tracking[ShardOf[k]]
              /\ \A c \in Clients : Clearing(c) => k \in call[c].late

NamesOK ==
  \A c \in Clients :
    Clearing(c) /\ call[c].names =>
      \A k \in tracking[call[c].shard] : k \in call[c].todo \/ k \in call[c].late \/ Excused(k)

TrackedOK ==
  \A k \in Keys : \/ Excused(k) \/ k \in tracking[ShardOf[k]]
                  \/ \E c \in Clients : Clearing(c) /\ k \in call[c].todo

TrackInv == ClearsOK /\ (TrackKeys => NamesOK /\ TrackedOK)

LEMMA TrackInvGivesTracked == TrackInv => Tracked
BY DEF TrackInv, Tracked, TrackedOK, Excused

\* What a step outside of clear may make of a call.
Kept(d) ==
  \/ call'[d] = call[d]
  \/ /\ Clearing(d) /\ Clearing(d)'
     /\ call'[d].shard = call[d].shard /\ call'[d].todo = call[d].todo
     /\ call'[d].names = call[d].names /\ call[d].late \subseteq call'[d].late
  \/ ~Clearing(d) /\ (Clearing(d)' => call'[d].todo = {} /\ ~call'[d].names)

\* Steps that keep the clears under way and excuse who was excused.
LEMMA Keeps ==
  ASSUME Types, TrackInv, \A d \in Clients : Kept(d),
         TrackKeys => /\ \A k \in Keys : Excused(k) => Excused(k)' \/ Settled(k)'
                      /\ \A s \in 1 .. Shards : /\ tracking[s] \subseteq tracking'[s]
                                                /\ \A k \in tracking'[s] : k \in tracking[s] \/ Settled(k)'
  PROVE  TrackInv'
<1>1. ClearsOK'
  BY DEF TrackInv, ClearsOK, Kept, Clearing
<1>2. ASSUME TrackKeys PROVE NamesOK'
  <2> SUFFICES ASSUME NEW c \in Clients, Clearing(c)', call'[c].names, NEW k \in tracking'[call'[c].shard]
               PROVE  k \in call'[c].todo \/ k \in call'[c].late \/ Excused(k)'
    BY DEF NamesOK
  <2>1. /\ Clearing(c) /\ call[c].names /\ call'[c].shard = call[c].shard
        /\ call'[c].todo = call[c].todo /\ call[c].late \subseteq call'[c].late
    BY DEF Kept, Clearing
  <2>2. call[c].shard \in 1 .. Shards
    <3>1. call[c] \in ClearCall
      BY <2>1, ClearRecords
    <3>2. call[c].shard \in 1 .. Shards + 1 /\ Shards \in Nat
      BY <3>1, MemcachedAssumption DEF ClearCall
    <3> QED
      BY <2>1, <3>2 DEF TrackInv, ClearsOK
  <2>3. k \in tracking[call[c].shard] \/ Settled(k)'
    BY <1>2, <2>1, <2>2
  <2>4. CASE Settled(k)'
    BY <2>4 DEF Settled
  <2>5. CASE k \in tracking[call[c].shard]
    <3>1. k \in call[c].todo \/ k \in call[c].late \/ Excused(k)
      BY <1>2, <2>1, <2>5 DEF TrackInv, NamesOK
    <3>2. k \in Keys
      BY <2>2, <2>5 DEF Types, TrackingOK
    <3>3. Excused(k) => Excused(k)' \/ Settled(k)'
      BY <1>2, <3>2
    <3> QED
      BY <2>1, <2>4, <3>1, <3>3
  <2> QED
    BY <2>3, <2>4, <2>5
<1>3. ASSUME TrackKeys PROVE TrackedOK'
  <2> SUFFICES ASSUME NEW k \in Keys
               PROVE  \/ Excused(k)' \/ k \in tracking'[ShardOf[k]]
                      \/ \E c \in Clients : Clearing(c)' /\ k \in call'[c].todo
    BY DEF TrackedOK
  <2>1. CASE Excused(k)
    BY <1>3, <2>1 DEF Settled
  <2>2. CASE k \in tracking[ShardOf[k]]
    BY <1>3, <2>2, MemcachedAssumption
  <2>3. ASSUME NEW c \in Clients, Clearing(c), k \in call[c].todo PROVE Clearing(c)' /\ k \in call'[c].todo
    BY <2>3 DEF Kept, Clearing
  <2> QED
    BY <1>3, <2>1, <2>2, <2>3 DEF TrackInv, TrackedOK
<1> QED
  BY <1>1, <1>2, <1>3 DEF TrackInv

\* A put keeps the clears.
LEMMA PutKeeps ==
  ASSUME Types, NEW k \in Keys, NEW v, NEW exptime, NEW older, Put(k, v, exptime, older), NEW d \in Clients
  PROVE  Kept(d)
<1>1. CASE call' = call
  BY <1>1 DEF Kept
<1>2. CASE call' = Spared(k)
  <2>1. CASE Clearing(d)
    <3>1. call[d] \in ClearCall
      BY <2>1, ClearRecords
    <3>2. call'[d] = [call[d] EXCEPT !.owed = @ \ {k}]
      BY <1>2, <2>1 DEF Spared
    <3> QED
      BY <2>1, <3>1, <3>2 DEF Kept, Clearing, ClearCall
  <2>2. CASE ~Clearing(d)
    BY <1>2, <2>2 DEF Spared, Kept
  <2> QED
    BY <2>1, <2>2
<1> QED
  BY <1>1, <1>2 DEF Put

LEMMA TickTracks ==
  ASSUME Types, TrackInv, Tick
  PROVE  TrackInv'
<1>1. \A d \in Clients : Kept(d)
  BY DEF Tick, Kept
<1>2. \A k \in Keys : Excused(k) => Excused(k)'
  BY DEF Tick, Vanish, Excused, Live
<1> QED
  BY <1>1, <1>2, Keeps DEF Tick

LEMMA BeginTracks ==
  ASSUME Types, TrackInv, NEW c \in Clients,
         BeginCount(c) \/ BeginSet(c) \/ BeginExpire(c) \/ BeginDelete(c) \/ BeginClear(c)
  PROVE  TrackInv'
<1>1. PICK record, ks, first :
        Begin(c, record, ks, first) /\ (record.op = "clear" => record.todo = {} /\ ~record.names)
  <2>1. CASE BeginCount(c)
    BY <2>1 DEF BeginCount
  <2>2. CASE BeginSet(c)
    BY <2>2 DEF BeginSet
  <2>3. CASE BeginExpire(c)
    BY <2>3 DEF BeginExpire
  <2>4. CASE BeginDelete(c)
    BY <2>4 DEF BeginDelete
  <2>5. CASE BeginClear(c)
    BY <2>5 DEF BeginClear
  <2> QED
    BY <2>1, <2>2, <2>3, <2>4, <2>5
<1>2. ~Clearing(c) /\ \A k \in Keys : at[c][k] = "done"
  BY <1>1, CallAt, Kinds DEF Begin, Clearing, Types
<1>3. \A d \in Clients : Kept(d)
  BY <1>1, <1>2 DEF Begin, Kept, Clearing, Types, CallsOK
<1>4. \A d \in Clients, k \in Keys : at[d][k] \in Tracking => at'[d][k] = at[d][k]
  BY <1>1, <1>2 DEF Begin, Types, CallsOK, Tracking
<1>5. \A k \in Keys : Excused(k) => Excused(k)'
  BY <1>1, <1>4 DEF Begin, Excused, Live
<1> QED
  BY <1>1, <1>3, <1>5, Keeps DEF Begin

LEMMA EndTracks ==
  ASSUME Types, TrackInv, NEW c \in Clients, End(c) \/ Abandon(c)
  PROVE  TrackInv'
<1>1. /\ call' = [call EXCEPT ![c] = Idle] /\ tracking' = tracking /\ value' = value /\ clobbered' = clobbered
      /\ \A k \in Keys : raced[k] => raced'[k]
      /\ \A d \in Clients \ {c} : at'[d] = at[d]
  BY DEF End, Abandon, Types, CallsOK
<1>2. ~Clearing(c)' /\ \A d \in Clients \ {c} : call'[d] = call[d]
  BY <1>1, Kinds DEF Clearing, Types, CallsOK
<1>3. ClearsOK'
  BY <1>2 DEF TrackInv, ClearsOK, Clearing
<1>4. \A k \in Keys : Excused(k) => Excused(k)'
  <2>1. ASSUME NEW k \in Keys, at[c][k] \in Tracking PROVE Excused(k)'
    BY <2>1 DEF End, Abandon, Excused, Tracking
  <2> QED
    BY <1>1, <2>1 DEF Excused, Live
<1>5. \A k \in Keys : Clearing(c) /\ k \in call[c].todo => Excused(k)'
  <2>1. CASE End(c)
    <3>1. Clearing(c) => call[c].shard > Shards
      BY <2>1 DEF End
    <3> QED
      BY <3>1 DEF TrackInv, ClearsOK
  <2>2. CASE Abandon(c)
    BY <2>2 DEF Abandon, Excused
  <2> QED
    BY <2>1, <2>2
<1>6. TrackKeys => NamesOK'
  <2> SUFFICES ASSUME TrackKeys, NEW d \in Clients \ {c}, Clearing(d), call[d].names,
                      NEW k \in tracking[call[d].shard]
               PROVE  k \in call[d].todo \/ k \in call[d].late \/ Excused(k)'
    BY <1>1, <1>2 DEF NamesOK, Clearing
  <2>1. k \in Keys
    <3>1. call[d] \in ClearCall
      BY ClearRecords
    <3>2. call[d].shard \in 1 .. Shards + 1 /\ Shards \in Nat
      BY <3>1, MemcachedAssumption DEF ClearCall
    <3> QED
      BY <3>2 DEF TrackInv, ClearsOK, Types, TrackingOK
  <2> QED
    BY <1>4, <2>1 DEF TrackInv, NamesOK
<1>7. TrackKeys => TrackedOK'
  <2> SUFFICES ASSUME TrackKeys, NEW k \in Keys
               PROVE  \/ Excused(k)' \/ k \in tracking[ShardOf[k]]
                      \/ \E d \in Clients : Clearing(d)' /\ k \in call'[d].todo
    BY <1>1 DEF TrackedOK
  <2>1. ASSUME NEW d \in Clients \ {c}, Clearing(d), k \in call[d].todo
        PROVE  Clearing(d)' /\ k \in call'[d].todo
    BY <1>2, <2>1 DEF Clearing
  <2> QED
    BY <1>4, <1>5, <2>1 DEF TrackInv, TrackedOK
<1> QED
  BY <1>3, <1>6, <1>7 DEF TrackInv

\* A key that is put and stays is about to be named.
LEMMA PutTracks ==
  ASSUME Types, TrackInv, NEW c \in Clients, NEW k \in Keys, NEW v \in Int, NEW exptime,
         Put(k, v, exptime, FALSE), Goto(c, k, Stored), at[c][k] \notin Tracking, tracking' = tracking
  PROVE  TrackInv'
<1>1. \A d \in Clients : Kept(d)
  BY PutKeeps
<1>2. ASSUME TrackKeys PROVE \A j \in Keys : Excused(j) => Excused(j)'
  <2>1. at'[c][k] \in Tracking
    BY <1>2 DEF Goto, Stored, Tracking, Types, CallsOK
  <2>2. \A d \in Clients, j \in Keys : at[d][j] \in Tracking => at'[d][j] = at[d][j]
    BY DEF Goto, Types, CallsOK
  <2>3. \A j \in Keys \ {k} : value'[j] = value[j] /\ raced'[j] = raced[j] /\ clobbered'[j] = clobbered[j]
    BY DEF Put, Remove, Vanish, Types, ServerOK
  <2> QED
    BY <2>1, <2>2, <2>3 DEF Excused, Live
<1> QED
  BY <1>1, <1>2, Keeps

LEMMA CreateTracks ==
  ASSUME Types, TrackInv, NEW c \in Clients, NEW k \in Keys, Create(c, k) \/ Store(c, k)
  PROVE  TrackInv'
<1>1. at[c][k] \notin Tracking
  BY DEF Create, Store, Tracking
<1>2. CASE Create(c, k) /\ Live(k)
  <2>1. \A d \in Clients : Kept(d)
    BY <1>2 DEF Create, Kept
  <2>2. \A j \in Keys : Excused(j) => Excused(j)'
    BY <1>1, <1>2 DEF Create, Goto, Excused, Live, Types, CallsOK
  <2> QED
    BY <1>2, <2>1, <2>2, Keeps DEF Create
<1>3. CASE Create(c, k) /\ ~Live(k)
  <2>1. call[c].delta \in Int
    BY <1>3, CallAt DEF Create, Types, CountCall
  <2>2. Put(k, call[c].delta, call[c].exptime, FALSE) /\ Goto(c, k, Stored) /\ tracking' = tracking
    BY <1>3 DEF Create
  <2> QED
    BY <1>1, <2>1, <2>2, PutTracks
<1>4. CASE Store(c, k)
  <2>1. Put(k, 0, call[c].exptime, FALSE) /\ Goto(c, k, Stored) /\ tracking' = tracking
    BY <1>4 DEF Store
  <2>2. 0 \in Int
    OBVIOUS
  <2> QED
    BY <1>1, <2>1, <2>2, PutTracks
<1> QED
  BY <1>2, <1>3, <1>4

\* Requests that put no new value.
LEMMA OtherTracks ==
  ASSUME Types, TrackInv, NEW c \in Clients, NEW k \in Keys,
         Count(c, k) \/ Delete(c, k) \/ Touch(c, k) \/ ReadToExpire(c, k) \/ Rewrite(c, k)
  PROVE  TrackInv'
<1>1. tracking' = tracking
  BY DEF Count, Delete, Touch, ReadToExpire, Rewrite
<1>2. \A d \in Clients : Kept(d)
  <2>1. CASE Count(c, k) \/ Delete(c, k) \/ Touch(c, k)
    BY <2>1 DEF Count, Delete, Touch, Kept
  <2>2. CASE ReadToExpire(c, k)
    <3>1. call[c] \in ExpireCall
      BY <2>2, CallAt DEF ReadToExpire, Types
    <3>2. call'[c].op = "expire" /\ \A d \in Clients \ {c} : call'[d] = call[d]
      BY <2>2, <3>1 DEF ReadToExpire, ExpireCall, Types, CallsOK
    <3> QED
      BY <3>1, <3>2, Kinds DEF Kept, Clearing
  <2>3. CASE Rewrite(c, k)
    <3>1. Put(k, call[c].seen, call[c].exptime, TRUE)
      BY <2>3 DEF Rewrite
    <3> QED
      BY <3>1, PutKeeps
  <2> QED
    BY <2>1, <2>2, <2>3
<1>3. \A d \in Clients, j \in Keys : at[d][j] \in Tracking => at'[d][j] = at[d][j]
  <2>1. at[c][k] \notin Tracking
    BY DEF Count, Delete, Touch, ReadToExpire, Rewrite, Tracking
  <2>2. \E where : Goto(c, k, where)
    BY DEF Count, Delete, Touch, ReadToExpire, Rewrite
  <2> QED
    BY <2>1, <2>2 DEF Goto, Types, CallsOK
<1>4. \A j \in Keys \ {k} : (Live(j)' => Live(j)) /\ raced'[j] = raced[j] /\ clobbered'[j] = clobbered[j]
  BY DEF Count, Delete, Touch, ReadToExpire, Rewrite, Put, Remove, Vanish, Live, Types, ServerOK
<1>5. Excused(k) => Excused(k)'
  <2>1. CASE Count(c, k)
    <3>1. (Live(k)' => Live(k)) /\ raced' = raced /\ clobbered' = clobbered
      BY <2>1 DEF Count, Counts, Live
    <3> QED
      BY <1>3, <3>1 DEF Excused
  <2>2. CASE Delete(c, k)
    BY <2>2 DEF Delete, Remove, Vanish, Excused, Live
  <2>3. CASE Touch(c, k)
    BY <1>3, <2>3 DEF Touch, Remove, Vanish, Excused, Live
  <2>4. CASE ReadToExpire(c, k)
    BY <1>3, <2>4 DEF ReadToExpire, Excused, Live
  <2>5. CASE Rewrite(c, k)
    <3>1. Put(k, call[c].seen, call[c].exptime, TRUE) /\ call[c].seen \in Int
      BY <2>5, CallAt DEF Rewrite, Types
    <3> QED
      BY <1>3, <3>1, MemcachedAssumption DEF Put, Remove, Vanish, Excused, Live, Types, ServerOK
  <2> QED
    BY <2>1, <2>2, <2>3, <2>4, <2>5
<1>6. \A j \in Keys : Excused(j) => Excused(j)'
  BY <1>3, <1>4, <1>5 DEF Excused
<1> QED
  BY <1>1, <1>2, <1>6, Keeps

\* A name that comes is late for every clear under way; one that does not come
\* excuses its key.
LEMMA TrackTracks ==
  ASSUME Types, TrackInv, NEW c \in Clients, NEW k \in Keys, Track(c, k)
  PROVE  TrackInv'
<1> DEFINE s == ShardOf[k]
           named == (tracking[s] = {}) = (at[c][k] = "name")
<1>1. /\ at[c][k] \in Tracking /\ Goto(c, k, IF named THEN "done" ELSE After(at[c][k]))
      /\ tracking' = IF named THEN [tracking EXCEPT ![s] = @ \cup {k}] ELSE tracking
      /\ call' = [d \in Clients |-> IF named /\ Clearing(d) THEN [call[d] EXCEPT !.late = @ \cup {k}] ELSE call[d]]
      /\ raced' = [raced EXCEPT ![k] = @ \/ (~named /\ at[c][k] = "append again")]
      /\ value' = value /\ clobbered' = clobbered
  BY DEF Track
<1>2. s \in 1 .. Shards /\ named \in BOOLEAN
  BY MemcachedAssumption
<1> HIDE DEF named
<1>3. ASSUME NEW d \in Clients
      PROVE  Kept(d) /\ (named /\ Clearing(d)' => k \in call'[d].late)
  <2>1. CASE named /\ Clearing(d)
    <3>1. call[d] \in ClearCall /\ call'[d] = [call[d] EXCEPT !.late = @ \cup {k}]
      BY <1>1, <2>1, ClearRecords
    <3> QED
      BY <2>1, <3>1 DEF Kept, Clearing, ClearCall
  <2>2. CASE ~(named /\ Clearing(d))
    BY <1>1, <2>2 DEF Kept, Clearing
  <2> QED
    BY <2>1, <2>2
<1>4. \A j \in Keys \ {k} : Excused(j) => Excused(j)'
  <2>1. \A d \in Clients, j \in Keys \ {k} : at'[d][j] = at[d][j]
    BY <1>1 DEF Goto, Types, CallsOK
  <2>2. \A j \in Keys \ {k} : raced'[j] = raced[j]
    BY <1>1 DEF Types, ServerOK
  <2> QED
    BY <1>1, <2>1, <2>2 DEF Excused, Live
<1>5. CASE named
  <2>1. tracking' = [tracking EXCEPT ![s] = @ \cup {k}]
    BY <1>1, <1>5
  <2>2. Settled(k)'
    BY <1>2, <1>3, <1>5, <2>1 DEF Settled, Types, TrackingOK, Clearing
  <2>3. \A r \in 1 .. Shards : /\ tracking[r] \subseteq tracking'[r]
                               /\ \A j \in tracking'[r] : j \in tracking[r] \/ j = k
    BY <1>2, <2>1 DEF Types, TrackingOK
  <2> QED
    BY <1>3, <1>4, <2>2, <2>3, Keeps
<1>6. CASE ~named
  <2>1. tracking' = tracking
    BY <1>1, <1>6
  <2>2. Excused(k)'
    <3>1. CASE at[c][k] = "append again"
      BY <1>1, <1>6, <3>1 DEF Excused, Types, ServerOK
    <3>2. CASE at[c][k] # "append again"
      <4>1. After(at[c][k]) \in Tracking
        BY <1>1, <3>2 DEF After, Tracking
      <4>2. at'[c][k] \in Tracking
        BY <1>1, <1>6, <4>1 DEF Goto, Types, CallsOK
      <4> QED
        BY <4>2 DEF Excused
    <3> QED
      BY <3>1, <3>2
  <2> QED
    BY <1>3, <1>4, <2>1, <2>2, Keeps
<1> QED
  BY <1>2, <1>5, <1>6

\* A clear reads the names of a shard: it will delete every one of them.
LEMMA ReadTracks ==
  ASSUME Types, TrackInv, NEW c \in Clients, ReadNames(c)
  PROVE  TrackInv'
<1> DEFINE names == tracking[call[c].shard]
<1>1. /\ Clearing(c) /\ call[c].shard <= Shards /\ call[c].todo = {} /\ ~call[c].names
      /\ call' = [call EXCEPT ![c] = IF names = {} THEN Skip(@)
                                     ELSE [@ EXCEPT !.todo = names, !.names = TRUE, !.late = {}]]
      /\ UNCHANGED <<tracking, value, raced, clobbered, at>>
  BY DEF ReadNames
<1>2. call[c] \in ClearCall
  BY <1>1, ClearRecords
<1>3. \A k : Excused(k)' <=> Excused(k)
  BY <1>1 DEF Excused, Live
<1> HIDE DEF names
<1>4. \A d \in Clients \ {c} : call'[d] = call[d]
  BY <1>1 DEF Types, CallsOK
<1>5. CASE names = {}
  <2>1. call'[c].todo = {} /\ ~call'[c].names /\ Clearing(c)'
    BY <1>1, <1>2, <1>5 DEF Types, CallsOK, Skip, ClearCall, Clearing
  <2>2. ClearsOK'
    BY <1>4, <2>1 DEF TrackInv, ClearsOK, Clearing
  <2>3. TrackKeys => NamesOK'
    BY <1>1, <1>3, <1>4, <2>1 DEF TrackInv, NamesOK, Clearing
  <2>4. TrackKeys => TrackedOK'
    BY <1>1, <1>3, <1>4, <2>1 DEF TrackInv, TrackedOK, Clearing
  <2> QED
    BY <2>2, <2>3, <2>4 DEF TrackInv
<1>6. CASE names # {}
  <2>1. call'[c].todo = names /\ call'[c].shard = call[c].shard /\ Clearing(c)'
    BY <1>1, <1>2, <1>6 DEF Types, CallsOK, ClearCall, Clearing
  <2>2. ClearsOK'
    <3>1. call[c].shard \in 1 .. Shards
      BY <1>1, <1>2, MemcachedAssumption DEF ClearCall
    <3> QED
      BY <1>4, <2>1, <3>1, MemcachedAssumption DEF TrackInv, ClearsOK, Clearing
  <2>3. TrackKeys => NamesOK'
    BY <1>1, <1>3, <1>4, <2>1 DEF TrackInv, NamesOK, Clearing, names
  <2>4. TrackKeys => TrackedOK'
    BY <1>1, <1>3, <1>4, <2>1 DEF TrackInv, TrackedOK, Clearing
  <2> QED
    BY <2>2, <2>3, <2>4 DEF TrackInv
<1> QED
  BY <1>5, <1>6

\* A clear deletes a key, or the names of its shard.
LEMMA DeleteEffects ==
  ASSUME Types, TrackInv, NEW c \in Clients, DeleteNamed(c) \/ DeleteNames(c)
  PROVE  /\ Clearing(c) /\ call[c] \in ClearCall /\ call[c].shard \in 1 .. Shards
         /\ call[c].todo # {} \/ call[c].names
         /\ Clearing(c)' /\ call'[c].todo \subseteq call[c].todo /\ (call'[c].names => call[c].names)
         /\ call'[c].late = call[c].late /\ call'[c].owed = call[c].owed
         /\ call'[c].shard = IF call'[c].todo # {} \/ call'[c].names THEN call[c].shard ELSE call[c].shard + 1
         /\ \A d \in Clients \ {c} : call'[d] = call[d]
         /\ at' = at /\ \A k \in Keys : Live(k)' /\ ~raced'[k] => Live(k) /\ ~raced[k] /\ clobbered'[k] = clobbered[k]
         /\ \A k \in call[c].todo : k \in call'[c].todo \/ ~Live(k)'
         /\ \A k \in Keys : Excused(k) => Excused(k)'
         /\ \A r \in 1 .. Shards : tracking'[r] \subseteq tracking[r]
         /\ \A k \in Keys : k \in tracking[ShardOf[k]] =>
              \/ k \in tracking'[ShardOf[k]] \/ k \in call'[c].todo \/ Excused(k)'
              \/ ~TrackKeys
<1>1. /\ Clearing(c) /\ call[c] \in ClearCall /\ call[c].shard \in 1 .. Shards
      /\ call[c].todo # {} \/ call[c].names
  <2>1. Clearing(c) /\ call[c] \in ClearCall /\ (call[c].names \/ call[c].todo # {})
    BY ClearRecords DEF DeleteNamed, DeleteNames
  <2>2. call[c].shard \in 1 .. Shards + 1 /\ Shards \in Nat
    BY <2>1, MemcachedAssumption DEF ClearCall
  <2> QED
    BY <2>1, <2>2 DEF TrackInv, ClearsOK
<1>2. PICK todo \in SUBSET call[c].todo, names \in BOOLEAN :
        /\ call' = [call EXCEPT ![c] = GoOn(c, todo, names)]
        /\ names => call[c].names
        /\ \A k \in call[c].todo : k \in todo \/ ~Live(k)'
  <2>1. CASE DeleteNamed(c)
    <3>1. PICK k \in call[c].todo : Remove({k}) /\ call' = [call EXCEPT ![c] = GoOn(c, call[c].todo \ {k}, call[c].names)]
      BY <1>1, <2>1 DEF DeleteNamed, Types, CallsOK
    <3>2. k \in Keys /\ call[c].names \in BOOLEAN
      BY <1>1, <3>1 DEF ClearCall
    <3>3. ~Live(k)'
      BY <3>1, <3>2 DEF Remove, Vanish, Live
    <3> QED
      BY <3>1, <3>2, <3>3
  <2>2. CASE DeleteNames(c)
    BY <2>2 DEF DeleteNames, Types, CallsOK
  <2> QED
    BY <2>1, <2>2
<1>3. /\ Clearing(c)' /\ call'[c].todo = todo /\ call'[c].names = names /\ call'[c].late = call[c].late
      /\ call'[c].owed = call[c].owed
      /\ call'[c].shard = IF todo # {} \/ names THEN call[c].shard ELSE call[c].shard + 1
      /\ \A d \in Clients \ {c} : call'[d] = call[d]
  BY <1>1, <1>2 DEF GoOn, Types, CallsOK, ClearCall, Clearing
<1>4. /\ at' = at
      /\ \A k \in Keys : Live(k)' /\ ~raced'[k] => Live(k) /\ ~raced[k] /\ clobbered'[k] = clobbered[k]
  <2>1. CASE DeleteNamed(c)
    <3>1. at' = at /\ \E ks : Remove(ks)
      BY <2>1 DEF DeleteNamed
    <3>2. PICK ks : Remove(ks)
      BY <3>1
    <3>3. /\ value' = [k \in Keys |-> IF k \in ks THEN Absent ELSE value[k]]
          /\ clobbered' = [k \in Keys |-> k \notin ks /\ clobbered[k]]
          /\ raced' = [k \in Keys |-> k \notin ks /\ raced[k]]
      BY <3>2 DEF Remove, Vanish
    <3>4. ASSUME NEW k \in Keys, Live(k)', ~raced'[k]
          PROVE  Live(k) /\ ~raced[k] /\ clobbered'[k] = clobbered[k]
      <4>1. k \notin ks /\ value'[k] = value[k]
        BY <3>3, <3>4 DEF Live
      <4>2. clobbered[k] \in BOOLEAN /\ raced[k] \in BOOLEAN
        BY DEF Types, ServerOK
      <4> QED
        BY <3>3, <3>4, <4>1, <4>2 DEF Live
    <3> QED
      BY <3>1, <3>4
  <2>2. CASE DeleteNames(c)
    BY <2>2 DEF DeleteNames, Live, Types, ServerOK
  <2> QED
    BY <2>1, <2>2
<1>5. \A k \in Keys : Excused(k) => Excused(k)'
  BY ZenonT(60) DEF DeleteNamed, DeleteNames, Remove, Vanish, Excused, Live, Types, ServerOK
<1>6. /\ \A r \in 1 .. Shards : tracking'[r] \subseteq tracking[r]
      /\ \A k \in Keys : k \in tracking[ShardOf[k]] =>
           \/ k \in tracking'[ShardOf[k]] \/ k \in todo \/ Excused(k)'
           \/ ~TrackKeys
  <2>1. CASE DeleteNamed(c) \/ (DeleteNames(c) /\ lib # "aiomcache")
    BY <2>1 DEF DeleteNamed, DeleteNames
  <2>2. CASE DeleteNames(c) /\ lib = "aiomcache"
    <3>1. /\ call[c].names /\ tracking' = [tracking EXCEPT ![call[c].shard] = {}]
          /\ raced' = [k \in Keys |-> raced[k] \/ (Live(k) /\ k \in call[c].late)]
          /\ value' = value
      BY <2>2 DEF DeleteNames
    <3>2. ASSUME TrackKeys, NEW k \in Keys, k \in tracking[call[c].shard]
          PROVE  k \in todo \/ Excused(k)'
      <4>1. k \in call[c].todo \/ k \in call[c].late \/ Excused(k)
        BY <1>1, <3>1, <3>2 DEF TrackInv, NamesOK
      <4>2. k \in call[c].late => Excused(k)'
        BY <3>1 DEF Excused, Live
      <4>3. k \in call[c].todo => k \in todo \/ Excused(k)'
        BY <1>2 DEF Excused
      <4> QED
        BY <1>5, <4>1, <4>2, <4>3
    <3>3. \A r \in 1 .. Shards : tracking'[r] = IF r = call[c].shard THEN {} ELSE tracking[r]
      BY <3>1 DEF Types, TrackingOK
    <3> QED
      BY <3>2, <3>3, MemcachedAssumption
  <2> QED
    BY <2>1, <2>2
<1> QED
  BY <1>1, <1>2, <1>3, <1>4, <1>5, <1>6

LEMMA DeleteTracks ==
  ASSUME Types, TrackInv, NEW c \in Clients, DeleteNamed(c) \/ DeleteNames(c)
  PROVE  TrackInv'
<1>1. ClearsOK'
  BY DeleteEffects, MemcachedAssumption DEF TrackInv, ClearsOK, Clearing
<1>2. ASSUME TrackKeys PROVE NamesOK'
  <2> SUFFICES ASSUME NEW d \in Clients, Clearing(d)', call'[d].names, NEW k \in tracking'[call'[d].shard]
               PROVE  k \in call'[d].todo \/ k \in call'[d].late \/ Excused(k)'
    BY DEF NamesOK
  <2>1. Clearing(d) /\ call[d].names /\ call'[d].shard = call[d].shard /\ call'[d].late = call[d].late
    BY DeleteEffects DEF Clearing
  <2>2. call[d] \in ClearCall /\ call[d].shard \in 1 .. Shards
    <3>1. call[d] \in ClearCall
      BY <2>1, ClearRecords
    <3>2. call[d].shard \in 1 .. Shards + 1 /\ Shards \in Nat
      BY <3>1, MemcachedAssumption DEF ClearCall
    <3> QED
      BY <2>1, <3>1, <3>2 DEF TrackInv, ClearsOK
  <2>3. k \in tracking[call[d].shard] /\ k \in Keys
    BY <2>1, <2>2, DeleteEffects DEF Types, TrackingOK
  <2>4. k \in call[d].todo \/ k \in call[d].late \/ Excused(k)
    BY <1>2, <2>1, <2>3 DEF TrackInv, NamesOK
  <2>5. k \in call[d].todo => k \in call'[d].todo \/ Excused(k)'
    BY DeleteEffects DEF Excused
  <2> QED
    BY <2>1, <2>3, <2>4, <2>5, DeleteEffects
<1>3. ASSUME TrackKeys PROVE TrackedOK'
  <2> SUFFICES ASSUME NEW k \in Keys
               PROVE  \/ Excused(k)' \/ k \in tracking'[ShardOf[k]]
                      \/ \E d \in Clients : Clearing(d)' /\ k \in call'[d].todo
    BY DEF TrackedOK
  <2>1. CASE Excused(k)
    BY <2>1, DeleteEffects
  <2>2. CASE k \in tracking[ShardOf[k]]
    BY <1>3, <2>2, DeleteEffects
  <2>3. CASE \E d \in Clients : Clearing(d) /\ k \in call[d].todo
    <3>1. PICK d \in Clients : Clearing(d) /\ k \in call[d].todo
      BY <2>3
    <3>2. CASE d = c
      BY <3>1, <3>2, DeleteEffects DEF Excused
    <3>3. CASE d # c
      BY <3>1, <3>3, DeleteEffects DEF Clearing
    <3> QED
      BY <3>2, <3>3
  <2> QED
    BY <1>3, <2>1, <2>2, <2>3 DEF TrackInv, TrackedOK
<1> QED
  BY <1>1, <1>2, <1>3 DEF TrackInv

----------------------------------------------------------------------------
(* Clearing: a key that is owed is in what some clear is about to delete, or    *)
(* named in a shard that the clear that owes it has yet to read.            *)

Ahead(c, k) ==
  \/ call[c].shard < ShardOf[k]
  \/ call[c].shard = ShardOf[k] /\ ~call[c].names /\ call[c].todo = {}

Due(k) == \E d \in Clients : Clearing(d) /\ k \in call[d].todo

SweptOK(c, k) ==
  /\ ~clobbered[k] /\ \A d \in Clients : at[d][k] \notin Tracking
  /\ Due(k) \/ (k \in tracking[ShardOf[k]] /\ Ahead(c, k))

SweepInv ==
  \A c \in Clients :
    Clearing(c) => /\ TrackKeys
                   /\ \A k \in call[c].todo : ShardOf[k] = call[c].shard
                   /\ \A k \in call[c].owed : Live(k) /\ ~raced[k] => SweptOK(c, k)

LEMMA SweepInvGivesClearSweeps == Types /\ SweepInv => ClearSweeps
<1> SUFFICES ASSUME Types, SweepInv, NEW c \in Clients, Clearing(c), NEW k \in call[c].owed,
                    Live(k), ~raced[k], ~(ShardOf[k] >= call[c].shard)
             PROVE  \E d \in Clients \ {c} : Clearing(d) /\ k \in call[d].todo
  BY DEF ClearSweeps
<1>1. call[c] \in ClearCall
  BY ClearRecords
<1>2. call[c].shard \in 1 .. Shards + 1 /\ k \in Keys /\ Shards \in Nat
  BY <1>1, MemcachedAssumption DEF ClearCall
<1>3. ShardOf[k] \in 1 .. Shards
  BY <1>2, MemcachedAssumption
<1>4. ~Ahead(c, k)
  BY <1>2, <1>3 DEF Ahead
<1>5. PICK d \in Clients : Clearing(d) /\ k \in call[d].todo
  BY <1>4 DEF SweepInv, SweptOK, Due
<1>6. d # c
  BY <1>2, <1>3, <1>5 DEF SweepInv
<1> QED
  BY <1>5, <1>6

\* What a step outside of clear may make of a call under way.
Spares(d) ==
  \/ call'[d] = call[d]
  \/ ~Clearing(d)'
  \/ /\ Clearing(d)
     /\ call'[d].shard = call[d].shard /\ call'[d].todo = call[d].todo
     /\ call'[d].names = call[d].names /\ call'[d].owed \subseteq call[d].owed

\* What it may do to a key.
Untouched(k) ==
  /\ Live(k) /\ ~raced[k] /\ clobbered'[k] = clobbered[k]
  /\ \A d \in Clients : at'[d][k] \in Tracking => at[d][k] \in Tracking
  /\ k \in tracking[ShardOf[k]] => k \in tracking'[ShardOf[k]]

Disowned(k) == \A d \in Clients : Clearing(d)' => k \notin call'[d].owed

LEMMA SweepKeeps ==
  ASSUME Types, SweepInv, \A d \in Clients : Spares(d),
         \A k \in Keys : Live(k)' /\ ~raced'[k] => Untouched(k) \/ Disowned(k),
         \A d \in Clients, k \in Keys :
           Clearing(d) /\ k \in call[d].todo /\ Live(k)' /\ ~raced'[k] => Clearing(d)'
  PROVE  SweepInv'
<1> SUFFICES ASSUME NEW c \in Clients, Clearing(c)'
             PROVE  /\ TrackKeys
                    /\ \A k \in call'[c].todo : ShardOf[k] = call'[c].shard
                    /\ \A k \in call'[c].owed : Live(k)' /\ ~raced'[k] => SweptOK(c, k)'
  BY DEF SweepInv
<1>1. /\ Clearing(c) /\ call'[c].shard = call[c].shard /\ call'[c].todo = call[c].todo
      /\ call'[c].names = call[c].names /\ call'[c].owed \subseteq call[c].owed
  BY DEF Spares, Clearing
<1>2. ASSUME NEW k \in call'[c].owed, Live(k)', ~raced'[k] PROVE SweptOK(c, k)'
  <2>1. k \in call[c].owed /\ k \in Keys
    <3>1. call[c] \in ClearCall
      BY <1>1, ClearRecords
    <3> QED
      BY <1>1, <3>1 DEF ClearCall
  <2>2. Untouched(k)
    BY <1>2, <2>1 DEF Disowned
  <2>3. SweptOK(c, k)
    BY <1>1, <2>1, <2>2 DEF SweepInv, Untouched
  <2>4. Due(k) => Due(k)'
    <3> SUFFICES ASSUME NEW d \in Clients, Clearing(d), k \in call[d].todo PROVE Clearing(d)' /\ k \in call'[d].todo
      BY DEF Due
    <3>1. Clearing(d)'
      BY <1>2, <2>1
    <3> QED
      BY <3>1 DEF Spares
  <2>5. Ahead(c, k) => Ahead(c, k)'
    BY <1>1 DEF Ahead
  <2> QED
    BY <2>2, <2>3, <2>4, <2>5 DEF SweptOK, Untouched
<1> QED
  BY <1>1, <1>2 DEF SweepInv

\* A step that keeps all calls' records.
LEMMA SweepQuiet ==
  ASSUME Types, SweepInv, call' = call, tracking' = tracking,
         \A k \in Keys : Live(k)' /\ ~raced'[k] =>
           /\ Live(k) /\ ~raced[k] /\ clobbered'[k] = clobbered[k]
           /\ \A d \in Clients : at'[d][k] \in Tracking => at[d][k] \in Tracking
  PROVE  SweepInv'
<1>1. \A d \in Clients : Spares(d)
  BY DEF Spares
<1>2. \A k \in Keys : Live(k)' /\ ~raced'[k] => Untouched(k)
  BY DEF Untouched
<1> QED
  BY <1>1, <1>2, SweepKeeps DEF Clearing

\* Nobody owes a key that was put.
LEMMA PutSweeps ==
  ASSUME Types, SweepInv, NEW c \in Clients, NEW k \in Keys, NEW v \in Int, NEW exptime, NEW older \in BOOLEAN,
         NEW where, Put(k, v, exptime, older), Goto(c, k, where), tracking' = tracking
  PROVE  SweepInv'
<1>1. \A d \in Clients : Spares(d) /\ (Clearing(d) => Clearing(d)')
  <2> SUFFICES ASSUME NEW d \in Clients PROVE Spares(d) /\ (Clearing(d) => Clearing(d)')
    OBVIOUS
  <2>1. CASE call' = call
    BY <2>1 DEF Spares, Clearing
  <2>2. CASE call' = Spared(k) /\ Clearing(d)
    <3>1. call[d] \in ClearCall /\ call'[d] = [call[d] EXCEPT !.owed = @ \ {k}]
      BY <2>2, ClearRecords DEF Spared
    <3> QED
      BY <2>2, <3>1 DEF Spares, Clearing, ClearCall
  <2>3. CASE call' = Spared(k) /\ ~Clearing(d)
    BY <2>3 DEF Spared, Spares
  <2> QED
    BY <2>1, <2>2, <2>3 DEF Put
<1>2. \A j \in Keys \ {k} : Live(j)' /\ ~raced'[j] => Untouched(j)
  BY DEF Put, Remove, Vanish, Goto, Live, Untouched, Types, ServerOK, CallsOK
<1>3. Live(k)' => Disowned(k)
  <2> SUFFICES ASSUME Live(k)', NEW d \in Clients, Clearing(d)' PROVE k \notin call'[d].owed
    BY DEF Disowned
  <2>1. call' = Spared(k)
    BY DEF Put, Remove, Vanish, Live
  <2>2. Clearing(d)
    BY <2>1 DEF Spared, Clearing
  <2>3. call[d] \in ClearCall /\ call'[d] = [call[d] EXCEPT !.owed = @ \ {k}]
    BY <2>1, <2>2, ClearRecords DEF Spared
  <2> QED
    BY <2>3 DEF ClearCall
<1> QED
  BY <1>1, <1>2, <1>3, SweepKeeps

LEMMA BeginSweeps ==
  ASSUME Types, TrackInv, SweepInv, NEW c \in Clients,
         BeginCount(c) \/ BeginSet(c) \/ BeginExpire(c) \/ BeginDelete(c)
  PROVE  SweepInv'
<1>1. PICK record, ks, first :
        /\ Begin(c, record, ks, first)
        /\ record.op \in {"count", "set", "expire", "delete"} /\ first \in {"try", "put", "expire", "delete"}
  <2>1. CASE BeginCount(c)
    BY <2>1 DEF BeginCount
  <2>2. CASE BeginSet(c)
    BY <2>2 DEF BeginSet
  <2>3. CASE BeginExpire(c)
    BY <2>3 DEF BeginExpire
  <2>4. CASE BeginDelete(c)
    BY <2>4 DEF BeginDelete
  <2> QED
    BY <2>1, <2>2, <2>3, <2>4
<1>2. ~Clearing(c) /\ ~Clearing(c)' /\ \A d \in Clients \ {c} : call'[d] = call[d]
  BY <1>1, Kinds DEF Begin, Clearing, Types, CallsOK
<1>3. \A d \in Clients, k \in Keys : at'[d][k] \in Tracking => at[d][k] \in Tracking
  BY <1>1 DEF Begin, Types, CallsOK, Tracking
<1>4. \A k \in Keys : Live(k)' /\ ~raced'[k] => Untouched(k)
  BY <1>1, <1>3 DEF Begin, Untouched, Live
<1> QED
  BY <1>2, <1>4, SweepKeeps DEF Spares, Clearing

\* A clear that begins owes what is named and not under way.
LEMMA BeginClearSweeps ==
  ASSUME Types, SweepInv, NEW c \in Clients, BeginClear(c)
  PROVE  SweepInv'
<1> DEFINE record == [op |-> "clear", shard |-> 1, todo |-> {}, names |-> FALSE, late |-> {}, owed |-> Owed]
<1>1. /\ TrackKeys /\ call[c] = Idle /\ call' = [call EXCEPT ![c] = record]
      /\ at' = [at EXCEPT ![c] = [k \in Keys |-> IF k \in {} THEN "done" ELSE "done"]]
      /\ UNCHANGED <<value, tracking, clobbered, raced>>
  BY DEF BeginClear, Begin
<1>2. /\ record.todo = {} /\ record.owed = Owed /\ record.shard = 1 /\ ~record.names
  OBVIOUS
<1> HIDE DEF record
<1>3. ~Clearing(c) /\ call'[c] = record /\ \A d \in Clients \ {c} : call'[d] = call[d]
  BY <1>1, Kinds DEF Clearing, Types, CallsOK
<1>4. \A d \in Clients, k \in Keys : at'[d][k] = at[d][k]
  BY <1>1, CallAt DEF Types, CallsOK
<1>5. \A k \in Keys : Due(k) => Due(k)'
  BY <1>3 DEF Due, Clearing
<1>6. ASSUME NEW k \in Owed PROVE SweptOK(c, k)'
  <2>1. k \in Keys /\ ~clobbered[k] /\ k \in tracking[ShardOf[k]] /\ \A d \in Clients : at[d][k] \notin Tracking
    BY DEF Owed
  <2>2. ShardOf[k] \in 1 .. Shards
    BY <2>1, MemcachedAssumption
  <2>3. Ahead(c, k)'
    BY <1>2, <1>3, <2>2 DEF Ahead
  <2> QED
    BY <1>1, <1>4, <2>1, <2>3 DEF SweptOK
<1>7. ASSUME NEW d \in Clients \ {c}, Clearing(d)
      PROVE  /\ \A k \in call[d].todo : ShardOf[k] = call[d].shard
             /\ \A k \in call[d].owed : Live(k) /\ ~raced[k] => SweptOK(d, k)'
  <2>1. call[d].owed \subseteq Keys
    BY <1>7, ClearRecords DEF ClearCall
  <2> QED
    BY <1>1, <1>3, <1>4, <1>5, <1>7, <2>1 DEF SweepInv, SweptOK, Ahead
<1> QED
  BY <1>1, <1>2, <1>3, <1>6, <1>7 DEF SweepInv, Clearing, Live

LEMMA EndSweeps ==
  ASSUME Types, TrackInv, SweepInv, NEW c \in Clients, End(c) \/ Abandon(c)
  PROVE  SweepInv'
<1>1. /\ call' = [call EXCEPT ![c] = Idle] /\ tracking' = tracking /\ value' = value /\ clobbered' = clobbered
      /\ \A k \in Keys : raced[k] => raced'[k]
      /\ \A d \in Clients, k \in Keys : at'[d][k] \in Tracking => at[d][k] \in Tracking
  BY ZenonT(60) DEF End, Abandon, Types, CallsOK, Tracking
<1>2. ~Clearing(c)' /\ \A d \in Clients \ {c} : call'[d] = call[d]
  BY <1>1, Kinds DEF Clearing, Types, CallsOK
<1>3. \A k \in Keys : Clearing(c) /\ k \in call[c].todo => raced'[k]
  <2>1. CASE End(c)
    <3>1. Clearing(c) => call[c].shard > Shards
      BY <2>1 DEF End
    <3> QED
      BY <3>1 DEF TrackInv, ClearsOK
  <2>2. CASE Abandon(c)
    BY <2>2 DEF Abandon
  <2> QED
    BY <2>1, <2>2
<1>4. \A k \in Keys : Live(k)' /\ ~raced'[k] => Untouched(k)
  BY <1>1 DEF Untouched, Live
<1> QED
  BY <1>2, <1>3, <1>4, SweepKeeps DEF Spares, Clearing

LEMMA RequestSweeps ==
  ASSUME Types, SweepInv, NEW c \in Clients, NEW k \in Keys,
         \/ Count(c, k) \/ Create(c, k) \/ Store(c, k) \/ Delete(c, k)
         \/ Touch(c, k) \/ ReadToExpire(c, k) \/ Rewrite(c, k) \/ Track(c, k)
  PROVE  SweepInv'
<1>1. ASSUME NEW where, Goto(c, k, where), where \in Tracking => at[c][k] \in Tracking
      PROVE  \A d \in Clients, j \in Keys : at'[d][j] \in Tracking => at[d][j] \in Tracking
  BY <1>1 DEF Goto, Types, CallsOK
<1>2. CASE Count(c, k)
  <2>1. Goto(c, k, "done") \/ Goto(c, k, "create")
    BY <1>2 DEF Count
  <2>2. \A j \in Keys : Live(j)' => Live(j)
    BY <1>2 DEF Count, Counts, Live, Types, ServerOK
  <2> QED
    BY <1>1, <1>2, <2>1, <2>2, SweepQuiet DEF Count, Tracking
<1>3. CASE Create(c, k)
  <2>1. CASE Live(k)
    <3>1. Goto(c, k, "again") /\ UNCHANGED <<value, call, tracking, clobbered, raced>>
      BY <1>3, <2>1 DEF Create
    <3> QED
      BY <1>1, <3>1, SweepQuiet DEF Live, Tracking
  <2>2. CASE ~Live(k)
    <3>1. Put(k, call[c].delta, call[c].exptime, FALSE) /\ Goto(c, k, Stored) /\ tracking' = tracking
      BY <1>3, <2>2 DEF Create
    <3>2. call[c].delta \in Int
      BY <1>3, CallAt DEF Create, Types, CountCall
    <3> QED
      BY <3>1, <3>2, PutSweeps
  <2> QED
    BY <2>1, <2>2
<1>4. CASE Store(c, k)
  <2>1. Put(k, 0, call[c].exptime, FALSE) /\ Goto(c, k, Stored) /\ tracking' = tracking
    BY <1>4 DEF Store
  <2>2. 0 \in Int
    OBVIOUS
  <2> QED
    BY <2>1, <2>2, PutSweeps
<1>5. CASE Rewrite(c, k)
  <2>1. /\ Put(k, call[c].seen, call[c].exptime, TRUE) /\ Goto(c, k, "done") /\ tracking' = tracking
        /\ call[c].seen \in Int
    BY <1>5, CallAt DEF Rewrite, Types
  <2> QED
    BY <2>1, PutSweeps
<1>6. CASE Delete(c, k) \/ Touch(c, k)
  <2>1. Goto(c, k, "done") /\ UNCHANGED <<call, tracking>>
    BY <1>6 DEF Delete, Touch
  <2>2. Remove({k}) \/ UNCHANGED <<value, clobbered, raced>>
    BY <1>6 DEF Delete, Touch
  <2>3. \A j \in Keys : Live(j)' /\ ~raced'[j] => Live(j) /\ ~raced[j] /\ clobbered'[j] = clobbered[j]
    BY <2>2 DEF Remove, Vanish, Live, Types, ServerOK
  <2> QED
    BY <1>1, <2>1, <2>3, SweepQuiet DEF Tracking
<1>7. CASE ReadToExpire(c, k)
  <2>1. call[c] \in ExpireCall
    BY <1>7, CallAt DEF ReadToExpire, Types
  <2>2. ~Clearing(c) /\ ~Clearing(c)' /\ \A d \in Clients \ {c} : call'[d] = call[d]
    BY <1>7, <2>1, Kinds DEF ReadToExpire, ExpireCall, Clearing, Types, CallsOK
  <2>3. Goto(c, k, "rewrite") \/ Goto(c, k, "done")
    BY <1>7 DEF ReadToExpire
  <2>4. \A j \in Keys : Live(j)' /\ ~raced'[j] => Untouched(j)
    BY <1>1, <1>7, <2>3 DEF ReadToExpire, Untouched, Live, Tracking
  <2> QED
    BY <2>2, <2>4, SweepKeeps DEF Spares, Clearing
<1>8. CASE Track(c, k)
  <2>1. \A d \in Clients : Spares(d) /\ (Clearing(d) => Clearing(d)')
    <3> SUFFICES ASSUME NEW d \in Clients, call'[d] # call[d] PROVE Spares(d) /\ (Clearing(d) => Clearing(d)')
      BY DEF Spares, Clearing
    <3>1. Clearing(d) /\ call'[d] = [call[d] EXCEPT !.late = @ \cup {k}]
      BY <1>8 DEF Track
    <3>2. call[d] \in ClearCall
      BY <3>1, ClearRecords
    <3> QED
      BY <3>1, <3>2 DEF Spares, Clearing, ClearCall
  <2>2. at[c][k] \in Tracking /\ \E where : Goto(c, k, where)
    BY <1>8 DEF Track
  <2>3. \A d \in Clients, j \in Keys : at'[d][j] \in Tracking => at[d][j] \in Tracking
    BY <1>1, <2>2
  <2>4. \A j \in Keys : j \in tracking[ShardOf[j]] => j \in tracking'[ShardOf[j]]
    BY <1>8, MemcachedAssumption DEF Track, Types, TrackingOK
  <2>5. \A j \in Keys : raced[j] => raced'[j]
    BY <1>8 DEF Track, Types, ServerOK
  <2>6. \A j \in Keys : Live(j)' /\ ~raced'[j] => Untouched(j)
    BY <1>8, <2>3, <2>4, <2>5 DEF Track, Untouched, Live
  <2> QED
    BY <2>1, <2>6, SweepKeeps
<1> QED
  BY <1>2, <1>3, <1>4, <1>5, <1>6, <1>7, <1>8

LEMMA TickSweeps ==
  ASSUME Types, SweepInv, Tick
  PROVE  SweepInv'
<1>1. call' = call /\ tracking' = tracking /\ at' = at
  BY DEF Tick
<1>2. \A k \in Keys : Live(k)' /\ ~raced'[k] => Live(k) /\ ~raced[k] /\ clobbered'[k] = clobbered[k]
  BY DEF Tick, Vanish, Live, Types, ServerOK
<1> QED
  BY <1>1, <1>2, SweepQuiet

\* A clear that reads a shard is about to delete what it owes there.
LEMMA ReadSweeps ==
  ASSUME Types, SweepInv, NEW c \in Clients, ReadNames(c)
  PROVE  SweepInv'
<1> DEFINE names == tracking[call[c].shard]
<1>1. /\ Clearing(c) /\ call[c].shard <= Shards /\ call[c].todo = {} /\ ~call[c].names
      /\ call' = [call EXCEPT ![c] = IF names = {} THEN Skip(@)
                                     ELSE [@ EXCEPT !.todo = names, !.names = TRUE, !.late = {}]]
      /\ UNCHANGED <<tracking, value, raced, clobbered, at>>
  BY DEF ReadNames
<1>2. call[c] \in ClearCall
  BY <1>1, ClearRecords
<1>3. call[c].shard \in 1 .. Shards /\ call[c].owed \subseteq Keys
  BY <1>1, <1>2, MemcachedAssumption DEF ClearCall
<1>4. \A k \in names : ShardOf[k] = call[c].shard
  BY <1>3 DEF Types, TrackingOK
<1> HIDE DEF names
<1>5. /\ Clearing(c)' /\ call'[c].todo = names /\ call'[c].owed = call[c].owed
      /\ names = {} => ~call'[c].names
      /\ call'[c].shard = IF names = {} THEN call[c].shard + 1 ELSE call[c].shard
      /\ \A d \in Clients \ {c} : call'[d] = call[d]
  BY <1>1, <1>2 DEF Types, CallsOK, Skip, ClearCall, Clearing
<1>6. \A k : Due(k) => Due(k)'
  BY <1>1, <1>5 DEF Due, Clearing
<1>7. ASSUME NEW k \in call[c].owed, Live(k), ~raced[k] PROVE SweptOK(c, k)'
  <2>1. SweptOK(c, k) /\ ShardOf[k] \in 1 .. Shards
    BY <1>1, <1>3, <1>7, MemcachedAssumption DEF SweepInv
  <2>2. CASE Due(k)
    BY <1>1, <1>6, <2>1, <2>2 DEF SweptOK
  <2>3. CASE k \in tracking[ShardOf[k]] /\ call[c].shard = ShardOf[k]
    <3>1. k \in names
      BY <2>3 DEF names
    <3>2. Due(k)'
      BY <1>5, <3>1 DEF Due
    <3> QED
      BY <1>1, <2>1, <3>2 DEF SweptOK
  <2>4. CASE k \in tracking[ShardOf[k]] /\ call[c].shard < ShardOf[k]
    <3>1. Ahead(c, k)'
      BY <1>3, <1>5, <2>1, <2>4 DEF Ahead
    <3> QED
      BY <1>1, <2>1, <2>4, <3>1 DEF SweptOK
  <2> QED
    BY <2>1, <2>2, <2>3, <2>4 DEF SweptOK, Ahead
<1>8. \A d \in Clients \ {c} : \A k : SweptOK(d, k) => SweptOK(d, k)'
  BY <1>1, <1>5, <1>6 DEF SweptOK, Ahead
<1>9. ASSUME NEW d \in Clients, Clearing(d)'
      PROVE  /\ TrackKeys /\ \A k \in call'[d].todo : ShardOf[k] = call'[d].shard
             /\ \A k \in call'[d].owed : Live(k)' /\ ~raced'[k] => SweptOK(d, k)'
  <2>1. CASE d = c
    BY <1>1, <1>4, <1>5, <1>7, <2>1 DEF SweepInv, Live
  <2>2. CASE d # c
    BY <1>1, <1>5, <1>8, <1>9, <2>2 DEF SweepInv, Live, Clearing
  <2> QED
    BY <2>1, <2>2
<1> QED
  BY <1>9 DEF SweepInv

LEMMA DeleteSweeps ==
  ASSUME Types, TrackInv, SweepInv, NEW c \in Clients, DeleteNamed(c) \/ DeleteNames(c)
  PROVE  SweepInv'
<1>1. \A k \in Keys : Live(k)' /\ Due(k) => Due(k)'
  <2> SUFFICES ASSUME NEW k \in Keys, Live(k)', NEW d \in Clients, Clearing(d), k \in call[d].todo PROVE Due(k)'
    BY DEF Due
  <2>1. CASE d = c
    BY <2>1, DeleteEffects DEF Due
  <2>2. CASE d # c
    BY <2>2, DeleteEffects DEF Due, Clearing
  <2> QED
    BY <2>1, <2>2
<1>2. ASSUME NEW d \in Clients, Clearing(d), NEW k \in call[d].owed, Live(k)', ~raced'[k]
      PROVE  SweptOK(d, k)'
  <2>1. k \in Keys /\ call[d].shard \in 1 .. Shards + 1
    BY <1>2, ClearRecords DEF ClearCall
  <2>2. SweptOK(d, k) /\ TrackKeys /\ clobbered'[k] = clobbered[k] /\ ShardOf[k] \in 1 .. Shards
    BY <1>2, <2>1, DeleteEffects, MemcachedAssumption DEF SweepInv
  <2>3. ~Excused(k)'
    BY <1>2, <2>1, <2>2, DeleteEffects DEF Excused, SweptOK
  <2>4. CASE Due(k)
    BY <1>1, <1>2, <2>1, <2>2, <2>4, DeleteEffects DEF SweptOK
  <2>5. CASE k \in tracking[ShardOf[k]] /\ Ahead(d, k)
    <3>1. Ahead(d, k)'
      <4>1. CASE d = c
        BY <2>1, <2>2, <2>5, <4>1, DeleteEffects DEF Ahead
      <4>2. CASE d # c
        BY <2>5, <4>2, DeleteEffects DEF Ahead
      <4> QED
        BY <4>1, <4>2
    <3>2. k \in tracking'[ShardOf[k]] \/ k \in call'[c].todo
      BY <2>1, <2>2, <2>3, <2>5, DeleteEffects
    <3>3. k \in call'[c].todo => Due(k)'
      BY DeleteEffects DEF Due
    <3> QED
      BY <2>2, <3>1, <3>2, <3>3, DeleteEffects DEF SweptOK
  <2> QED
    BY <2>2, <2>4, <2>5 DEF SweptOK
<1>3. ASSUME NEW d \in Clients, Clearing(d)'
      PROVE  /\ Clearing(d) /\ call'[d].owed = call[d].owed
             /\ \A k \in call'[d].todo : ShardOf[k] = call'[d].shard
  <2>1. CASE d = c
    BY <2>1, DeleteEffects DEF SweepInv
  <2>2. CASE d # c
    BY <1>3, <2>2, DeleteEffects DEF SweepInv, Clearing
  <2> QED
    BY <2>1, <2>2
<1> QED
  BY <1>2, <1>3 DEF SweepInv

----------------------------------------------------------------------------
(* The invariant. *)

IInv == Types /\ TrackInv /\ SweepInv /\ NoCountLost

LEMMA InitIInv == Init => IInv
<1> SUFFICES ASSUME Init PROVE IInv
  OBVIOUS
<1>1. Types
  <2>1. ServerOK /\ TrackingOK /\ lib \in Libraries
    BY DEF Init, ServerOK, TrackingOK, Lives
  <2>2. Fits(Idle, "done")
    BY DEF Fits, Places, Tracking
  <2> QED
    BY <2>1, <2>2 DEF Init, Types, CallsOK, Call, Places
<1>2. \A c \in Clients : ~Clearing(c)
  BY Kinds DEF Init, Clearing
<1>3. \A k \in Keys : ~Live(k)
  BY DEF Init, Live
<1> QED
  BY <1>1, <1>2, <1>3 DEF IInv, TrackInv, ClearsOK, NamesOK, TrackedOK, Excused, SweepInv, NoCountLost

\* Keys that vanish, and a key that is put, have the count they hold.
LEMMA RemoveCounts ==
  ASSUME NoCountLost, NEW ks, Remove(ks)
  PROVE  NoCountLost'
BY DEF NoCountLost, Remove, Vanish, Live

LEMMA PutCounts ==
  ASSUME Types, NoCountLost, NEW k \in Keys, NEW v \in Int, NEW exptime, NEW older \in BOOLEAN,
         Put(k, v, exptime, older)
  PROVE  NoCountLost'
<1>1. CASE Lifetime(exptime) = 0
  BY <1>1, RemoveCounts DEF Put
<1>2. CASE Lifetime(exptime) # 0
  <2>1. /\ value' = [value EXCEPT ![k] = v]
        /\ counted' = [counted EXCEPT ![k] = IF older THEN counted[k] ELSE v]
        /\ clobbered' = [clobbered EXCEPT ![k] = older /\ (clobbered[k] \/ v # value[k])]
    BY <1>2 DEF Put, Types, ServerOK
  <2>2. \A j \in Keys \ {k} : value'[j] = value[j] /\ counted'[j] = counted[j] /\ clobbered'[j] = clobbered[j]
    BY <2>1 DEF Types, ServerOK
  <2>3. ~clobbered'[k] => value'[k] = counted'[k]
    BY <2>1, MemcachedAssumption DEF NoCountLost, Live, Types, ServerOK
  <2> QED
    BY <2>2, <2>3 DEF NoCountLost, Live
<1> QED
  BY <1>1, <1>2

LEMMA NextCounts ==
  ASSUME Types, NoCountLost, Next
  PROVE  NoCountLost'
<1>1. CASE Tick
  BY <1>1 DEF Tick, Vanish, NoCountLost, Live
<1>2. ASSUME NEW c \in Clients, Step(c) PROVE NoCountLost'
  <2>1. CASE \/ BeginCount(c) \/ BeginSet(c) \/ BeginExpire(c) \/ BeginDelete(c) \/ BeginClear(c)
             \/ End(c) \/ Abandon(c) \/ ReadNames(c)
    <3>1. UNCHANGED <<value, counted, clobbered>>
      BY <2>1 DEF BeginCount, BeginSet, BeginExpire, BeginDelete, BeginClear, Begin, End, Abandon, ReadNames
    <3> QED
      BY <3>1 DEF NoCountLost, Live
  <2>2. CASE DeleteNamed(c)
    BY <2>2, RemoveCounts DEF DeleteNamed
  <2>3. CASE DeleteNames(c)
    BY <2>3 DEF DeleteNames, NoCountLost, Live
  <2>4. ASSUME NEW k \in Keys, Count(c, k) PROVE NoCountLost'
    BY <2>4 DEF Count, Counts, NoCountLost, Live, Types, ServerOK
  <2>5. ASSUME NEW k \in Keys, Create(c, k) PROVE NoCountLost'
    <3>1. CASE Live(k)
      BY <2>5, <3>1 DEF Create, NoCountLost, Live
    <3>2. CASE ~Live(k)
      <4>1. Put(k, call[c].delta, call[c].exptime, FALSE)
        BY <2>5, <3>2 DEF Create
      <4>2. call[c].delta \in Int
        BY <2>5, CallAt DEF Create, Types, CountCall
      <4> QED
        BY <4>1, <4>2, PutCounts
    <3> QED
      BY <3>1, <3>2
  <2>6. ASSUME NEW k \in Keys, Store(c, k) PROVE NoCountLost'
    <3>1. Put(k, 0, call[c].exptime, FALSE)
      BY <2>6 DEF Store
    <3>2. 0 \in Int
      OBVIOUS
    <3> QED
      BY <3>1, <3>2, PutCounts
  <2>7. ASSUME NEW k \in Keys, Delete(c, k) PROVE NoCountLost'
    BY <2>7, RemoveCounts DEF Delete
  <2>8. ASSUME NEW k \in Keys, Touch(c, k) PROVE NoCountLost'
    <3>1. CASE Live(k) /\ Lifetime(call[c].exptime) # 0
      BY <2>8, <3>1 DEF Touch, NoCountLost, Live
    <3>2. CASE ~(Live(k) /\ Lifetime(call[c].exptime) # 0)
      BY <2>8, <3>2, RemoveCounts DEF Touch
    <3> QED
      BY <3>1, <3>2
  <2>9. ASSUME NEW k \in Keys, ReadToExpire(c, k) \/ Track(c, k) PROVE NoCountLost'
    <3>1. UNCHANGED <<value, counted, clobbered>>
      BY <2>9 DEF ReadToExpire, Track
    <3> QED
      BY <3>1 DEF NoCountLost, Live
  <2>10. ASSUME NEW k \in Keys, Rewrite(c, k) PROVE NoCountLost'
    <3>1. Put(k, call[c].seen, call[c].exptime, TRUE) /\ call[c].seen \in Int
      BY <2>10, CallAt DEF Rewrite, Types
    <3> QED
      BY <3>1, PutCounts
  <2> QED
    BY <1>2, <2>1, <2>2, <2>3, <2>4, <2>5, <2>6, <2>7, <2>8, <2>9, <2>10 DEF Step
<1> QED
  BY <1>1, <1>2 DEF Next

LEMMA NextIInv ==
  ASSUME IInv, [Next]_vars
  PROVE  IInv'
<1> USE DEF IInv
<1>1. CASE UNCHANGED vars
  BY <1>1 DEF vars, Types, ServerOK, TrackingOK, CallsOK, TrackInv, ClearsOK, NamesOK, TrackedOK,
              Excused, SweepInv, SweptOK, Due, Ahead, Clearing, NoCountLost, Live
<1>2. CASE Next
  <2>1. CASE Tick
    BY <1>2, <2>1, TickTypes, TickTracks, TickSweeps, NextCounts
  <2>2. ASSUME NEW c \in Clients, Step(c) PROVE Types' /\ TrackInv' /\ SweepInv'
    <3>1. CASE BeginCount(c) \/ BeginSet(c) \/ BeginExpire(c) \/ BeginDelete(c) \/ BeginClear(c)
      BY <3>1, EveryBeginTypes, BeginTracks, BeginSweeps, BeginClearSweeps
    <3>2. CASE End(c) \/ Abandon(c)
      BY <3>2, EndTypes, EndTracks, EndSweeps
    <3>3. ASSUME NEW k \in Keys,
                 \/ Count(c, k) \/ Create(c, k) \/ Store(c, k) \/ Delete(c, k)
                 \/ Touch(c, k) \/ ReadToExpire(c, k) \/ Rewrite(c, k) \/ Track(c, k)
          PROVE  Types' /\ TrackInv' /\ SweepInv'
      BY <3>3, CountTypes, StoreTypes, RewriteTypes, OtherTypes, CreateTracks, OtherTracks, TrackTracks,
         RequestSweeps
    <3>4. CASE ReadNames(c) \/ DeleteNamed(c) \/ DeleteNames(c)
      BY <3>4, ClearTypes, ReadTracks, DeleteTracks, ReadSweeps, DeleteSweeps DEF TrackInv
    <3> QED
      BY <2>2, <3>1, <3>2, <3>3, <3>4 DEF Step
  <2> QED
    BY <1>2, <2>1, <2>2, NextCounts DEF Next
<1> QED
  BY <1>1, <1>2

\* The invariant holds throughout.
THEOREM Invariance == Spec => []IInv
BY InitIInv, NextIInv, PTL DEF Spec

\* Every variable has its type, and a call under way that of its operation.
THEOREM TypeCorrect == Spec => []TypeOK
<1>1. IInv => TypeOK
  BY TypesGiveTypeOK DEF IInv
<1> QED
  BY <1>1, Invariance, PTL

\* However the requests of increments, puts, deletions, clears and expiry interleave,
\* a counter holds what they made of it since it was put, unless an expire of
\* aiomcache stored an older value.
THEOREM NoCountLostHolds == Spec => []NoCountLost
<1>1. IInv => NoCountLost
  BY DEF IInv
<1> QED
  BY <1>1, Invariance, PTL

\* A key at the server has its name in the tracking key, or the request that puts it
\* there is yet to come, or a clear or a failure fell between the two.
THEOREM TrackedHolds == Spec => []Tracked
<1>1. IInv => Tracked
  BY TrackInvGivesTracked DEF IInv
<1> QED
  BY <1>1, Invariance, PTL

\* A clear that is through with a shard has left nothing there of what was put and named
\* before it began and not put since, but what a clear it ran into is about to delete.
THEOREM ClearSweepsHolds == Spec => []ClearSweeps
<1>1. IInv => ClearSweeps
  BY SweepInvGivesClearSweeps DEF IInv
<1> QED
  BY <1>1, Invariance, PTL
=============================================================================
