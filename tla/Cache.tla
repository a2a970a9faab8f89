-------------------------------- MODULE Cache --------------------------------
(***************************************************************************)
(* The bounded cache (internal/cache): a map of entries, a list that keeps *)
(* them in the order of eviction, and a count of their sizes.  Every       *)
(* method holds the one mutex from beginning to end and is one action;     *)
(* callers come in any order, and time passes between the calls.  The      *)
(* statistics are left out.                                                *)
(***************************************************************************)
EXTENDS Integers, Sequences, SequencesExt, FiniteSetsExt

CONSTANTS
  Key, Value,
  Nothing,   \* no value: a miss
  Sizes,     \* sizes that callers give
  Configs,   \* [MaxSize, MaxEntries, MaxAge, EvictionPolicy]
  Percents,  \* what ReduceSize is called with
  MaxTime    \* bound: the clock

\* With a MaxEntries of zero evictIfNeeded does not return; Config is not validated.
Settings == [MaxSize : Nat, MaxEntries : Nat \ {0}, MaxAge : Nat, EvictionPolicy : {"LRU", "FIFO"}]

ASSUME CacheAssumption ==
  /\ Nothing \notin Value /\ Nothing \notin [value : Value, at : Nat]
  /\ Sizes \subseteq Nat /\ Percents \subseteq 0..100 /\ MaxTime \in Nat
  /\ Configs \subseteq Settings

VARIABLES
  config,       \* ReduceSize changes its MaxSize
  items,        \* the entry of each cached key
  order,        \* the keys in the list, front first
  currentSize,
  now,
  last,         \* history: the value last set for a key and when
  answer        \* history: the answer to the latest Get

vars == <<config, items, order, currentSize, now, last, answer>>

Init ==
  /\ config \in Configs
  /\ items = <<>>
  /\ order = <<>>
  /\ currentSize = 0
  /\ now = 0
  /\ last = [k \in Key |-> Nothing]
  /\ answer = Nothing

-----------------------------------------------------------------------------

LRU == config.EvictionPolicy = "LRU"

SizeOf(K) == MapThenSumSet(LAMBDA k : items[k].size, K)

Without(K) == [k \in DOMAIN items \ K |-> items[k]]

\* The list when the elements of K are unlinked.
Remaining(K) == FoldLeft(LAMBDA rest, k : IF k \in K THEN rest ELSE Append(rest, k), <<>>, order)

\* Called for each of the keys K.
removeElement(K) ==
  /\ items' = Without(K)
  /\ order' = Remaining(K)
  /\ currentSize' = currentSize - SizeOf(K)

\* evictOne, n times: the back of the list for LRU, its front for FIFO.
Victims(n) ==
  IF LRU THEN SubSeq(order, Len(order) - n + 1, Len(order)) ELSE SubSeq(order, 1, n)

\* The entries an eviction loop removes, given the numbers of evictions after which
\* its condition is false: it stops at the first of them.
Evicted(enough) == ToSet(Victims(Min(enough)))

SizeAfter(n) == currentSize - SizeOf(ToSet(Victims(n)))

Fits(n, maxSize, newSize) == SizeAfter(n) + newSize <= maxSize \/ n = Len(order)

\* Mutant: one eviction, if any is needed, and no loop.
OnlyOne(newSize) ==
  ToSet(Victims(IF Fits(0, config.MaxSize, newSize) /\ Len(order) < config.MaxEntries THEN 0 ELSE 1))

\* Room for the size, or an empty cache; and for one more entry.
evictIfNeeded(newSize) ==
  Evicted({n \in 0..Len(order) : Fits(n, config.MaxSize, newSize) /\ Len(order) - n < config.MaxEntries})

\* Mutant: an access leaves the entry where it is.
NotMoved(k) == order

MoveToFront(k) == IF LRU THEN <<k>> \o Remaining({k}) ELSE order

\* Mutant: the age is that of the latest access.
Unused(k) == now - items[k].accessedAt > config.MaxAge

Expired(k) == now - items[k].createdAt > config.MaxAge

GetMiss(k) ==
  /\ k \notin DOMAIN items
  /\ answer' = Nothing
  /\ UNCHANGED <<config, items, order, currentSize, now, last>>

GetExpired(k) ==
  /\ k \in DOMAIN items
  /\ Expired(k)
  /\ removeElement({k})
  /\ answer' = Nothing
  /\ UNCHANGED <<config, now, last>>

GetHit(k) ==
  /\ k \in DOMAIN items
  /\ ~Expired(k)
  /\ items' = IF LRU THEN [items EXCEPT ![k].accessedAt = now] ELSE items
  /\ order' = MoveToFront(k)
  /\ answer' = items[k].value
  /\ UNCHANGED <<config, currentSize, now, last>>

Wrote(k, v) == last' = [last EXCEPT ![k] = [value |-> v, at |-> now]]

\* Mutant: the old size stays counted.
Added(k, size) == currentSize + size

Resized(k, size) == currentSize - items[k].size + size

\* Set of a cached key: the entry keeps its age, and nothing is evicted for it.
SetExisting(k, v, size) ==
  /\ k \in DOMAIN items
  /\ items' = [items EXCEPT ![k].value = v, ![k].size = size, ![k].accessedAt = now]
  /\ order' = MoveToFront(k)
  /\ currentSize' = Resized(k, size)
  /\ Wrote(k, v)
  /\ UNCHANGED <<config, now, answer>>

SetNew(k, v, size) ==
  LET gone == evictIfNeeded(size)
      rest == Remaining(gone)
      entry == [value |-> v, size |-> size, createdAt |-> now, accessedAt |-> now]
  IN /\ k \notin DOMAIN items
     /\ items' = [j \in (DOMAIN items \ gone) \cup {k} |-> IF j = k THEN entry ELSE items[j]]
     /\ order' = IF LRU THEN <<k>> \o rest ELSE Append(rest, k)
     /\ currentSize' = currentSize - SizeOf(gone) + size
     /\ Wrote(k, v)
     /\ UNCHANGED <<config, now, answer>>

Delete(k) ==
  /\ removeElement({k} \cap DOMAIN items)
  /\ last' = [last EXCEPT ![k] = Nothing]
  /\ UNCHANGED <<config, now, answer>>

Cleanup ==
  /\ removeElement({k \in DOMAIN items : Expired(k)})
  /\ UNCHANGED <<config, now, last, answer>>

ReduceSize(percent) ==
  LET maxSize == config.MaxSize - (config.MaxSize * percent) \div 100
  IN /\ config' = [config EXCEPT !.MaxSize = maxSize]
     /\ removeElement(Evicted({n \in 0..Len(order) : Fits(n, maxSize, 0)}))
     /\ UNCHANGED <<now, last, answer>>

Clear ==
  /\ items' = <<>>
  /\ order' = <<>>
  /\ currentSize' = 0
  /\ last' = [k \in Key |-> Nothing]
  /\ UNCHANGED <<config, now, answer>>

Tick ==
  /\ now < MaxTime
  /\ now' = now + 1
  /\ UNCHANGED <<config, items, order, currentSize, last, answer>>

Next ==
  \/ \E k \in Key :
       \/ GetMiss(k) \/ GetExpired(k) \/ GetHit(k) \/ Delete(k)
       \/ \E v \in Value, size \in Sizes : SetExisting(k, v, size) \/ SetNew(k, v, size)
  \/ \E percent \in Percents : ReduceSize(percent)
  \/ Cleanup \/ Clear \/ Tick

Spec == Init /\ [][Next]_vars

-----------------------------------------------------------------------------
(* Properties.                                                             *)

\* Map, list and size count agree: the list holds every cached key exactly once,
\* currentSize is the sum of the sizes, and there are never too many entries.
Accounting ==
  /\ ToSet(order) = DOMAIN items /\ Len(order) = Cardinality(DOMAIN items)
  /\ currentSize = SizeOf(DOMAIN items)
  /\ Len(order) <= config.MaxEntries

\* The end of the list where evictOne takes its victims has the entries that were
\* not used for the longest time (LRU), or are the oldest (FIFO).
EvictsByPolicy ==
  \A i, j \in 1..Len(order) : i < j =>
    IF LRU THEN items[order[i]].accessedAt >= items[order[j]].accessedAt
    ELSE items[order[i]].createdAt <= items[order[j]].createdAt

\* Adding a key brings the cache within MaxSize, but for a single entry that is
\* larger by itself, and evicts nothing that it need not; so does reducing MaxSize.
LimitsRestored ==
  [][LET added == DOMAIN items' \ DOMAIN items
         kept == DOMAIN items \cap DOMAIN items'
         lost == DOMAIN items \ DOMAIN items'
     IN /\ added # {} => currentSize' <= config.MaxSize \/ kept = {}
        /\ config' # config => currentSize' <= config'.MaxSize
        /\ added # {} /\ lost # {} =>
             \E k \in lost : \/ currentSize' + items[k].size > config.MaxSize
                             \/ Len(order') = config.MaxEntries]_vars

\* The cache keeps the promise to its callers.
Contract == INSTANCE CacheContract WITH maxAge <- config.MaxAge

ImplementsContract == Contract!Spec

-----------------------------------------------------------------------------
(* The inductive invariant.                                                *)

Entry == [value : Value, size : Nat, createdAt : Nat, accessedAt : Nat]

\* The shape of entries, list and history; the size never becomes negative.
TypeOK ==
  /\ config \in Settings
  /\ DOMAIN items \subseteq Key /\ items \in [DOMAIN items -> Entry]
  /\ order \in Seq(Key) /\ currentSize \in Nat /\ now \in Nat
  /\ last \in [Key -> Contract!Written \cup {Nothing}] /\ answer \in Value \cup {Nothing}

\* A cached value is the one last set, and not older than its entry; no time is ahead
\* of the clock.
EntriesTrue ==
  \A k \in DOMAIN items :
    /\ last[k] # Nothing /\ items[k].value = last[k].value /\ items[k].createdAt <= last[k].at
    /\ items[k].createdAt <= now /\ items[k].accessedAt <= now

\* Map, list, count and clock fit together after every call.
IInv == TypeOK /\ EntriesTrue /\ IsInjective(order) /\ Accounting /\ EvictsByPolicy

=============================================================================
