--------------------------- MODULE ServiceAccounts ---------------------------
(***************************************************************************)
(* Service accounts and the host calls that change them (models/state.py,  *)
(* ServiceAccount and ServicesState; hostcalls/accumulate.py and the write *)
(* call of hostcalls/general.py).                                          *)
(*                                                                         *)
(* Accounts and their maps are one function from keys to values, as in the *)
(* state storage.  An invocation has a context: pending changes on top of  *)
(* that function, deferred transfers, provided preimages and the next new  *)
(* service id.  v is always the function with the pending changes of the   *)
(* context applied, s the service that calls.  A call whose guard is false *)
(* only returns an error code.                                             *)
(***************************************************************************)
EXTENDS Integers, FiniteSetsExt, SequencesExt

CONSTANTS
    Service,       \* service ids
    FirstPublic,   \* MINIMUM_PUBLIC_SERVICE_ID
    PublicIds,     \* the number of public ids
    Manager,       \* privileged_services.manager
    Registrar,     \* privileged_services.registrar
    Item,          \* storage keys
    Hash,          \* preimage hashes
    Length,        \* lengths that a preimage request may name
    BlobSize,      \* length of the preimage of a hash
    Expunge,       \* PREIMAGE_EXPUNGE_TIMESLOTS
    Missing        \* no value

Public == FirstPublic .. FirstPublic + PublicIds - 1

ASSUME ServiceAssumption ==
    /\ FirstPublic \in Nat /\ Expunge \in Nat
    /\ Service \subseteq Nat /\ Public \subseteq Service
    /\ \A s \in Service : s >= FirstPublic => s \in Public
    /\ PublicIds \in Nat \ {0} /\ 42 % PublicIds # 0
    /\ Length \subseteq Nat /\ BlobSize \in [Hash -> Length]
    /\ Service \cap Hash = {}
    /\ IsFiniteSet(Item) /\ IsFiniteSet(Hash) /\ IsFiniteSet(Length)

\* A request names a hash and a length, whether or not the preimage has that length.
Request == Hash \X Length
Answerable(h) == <<h, BlobSize[h]>>

Acct(s) == <<"acct", s>>
Stored(s, k) == <<"item", s, k>>
Blob(s, h) == <<"blob", s, h>>
Avail(s, r) == <<"avail", s, r>>
Key == {Acct(s) : s \in Service} \cup {Stored(s, k) : s \in Service, k \in Item}
       \cup {Blob(s, h) : s \in Service, h \in Hash}
       \cup {Avail(s, r) : s \in Service, r \in Request}
Owner(key) == key[2]

\* A code that is a service names the only service that may eject the account.
Account == [bal : Nat, code : Hash \cup Service, items : Nat, octets : Nat, offset : Nat]

ASSUME MissingAssumption == Missing \notin Account \cup Nat \cup Seq(Nat) \cup BOOLEAN

Exists(v, s) == v[Acct(s)] # Missing

Threshold(a) ==
    LET need == 100 + 10 * a.items + a.octets - a.offset
    IN  IF need > 0 THEN need ELSE 0

\* Footprints; storage keys are one octet long here.
Grown(a, items, octets) == [a EXCEPT !.items = @ + items, !.octets = @ + octets]
ItemOctets(size) == 34 + 1 + size
PreimageOctets(size) == 81 + size

-----------------------------------------------------------------------------
\* values with the changes applied; the function that only has one value.
Patched(changes, values) ==
    [key \in DOMAIN changes \cup DOMAIN values |->
        IF key \in DOMAIN changes THEN changes[key] ELSE values[key]]
Only(key, value) == [x \in {key} |-> value]

Context(newId) == [pend |-> <<>>, xfers |-> <<>>, provided |-> {}, newId |-> newId]
With(c, changes) == [c EXCEPT !.pend = Patched(changes, @)]
WithAccount(c, s, a) == With(c, Only(Acct(s), a))

\* check_service_id: the first unused public id from id on, in a ring.
CheckServiceId(v, id) ==
    LET at(n) == FirstPublic + ((id - FirstPublic + n) % PublicIds)
    IN  at(Min({n \in 0 .. PublicIds - 1 : v[Acct(at(n))] = Missing}))

CanTransfer(v, s, d, amount) ==
    v[Acct(d)] # Missing /\ v[Acct(s)].bal - amount >= Threshold(v[Acct(s)])
Transfer(v, c, s, d, amount) ==
    [WithAccount(c, s, [v[Acct(s)] EXCEPT !.bal = @ - amount])
        EXCEPT !.xfers = Append(@, [to |-> d, amount |-> amount])]

NewAccount(r, offset) ==
    LET a == Grown([bal |-> 0, code |-> r[1], items |-> 0, octets |-> 0, offset |-> offset],
                   2, PreimageOctets(r[2]))
    IN  [a EXCEPT !.bal = Threshold(a)]
OwnChoice(s, i) == s = Registrar /\ i < FirstPublic
CanNew(v, s, r, offset, i) ==
    /\ r[2] > 0
    /\ offset # 0 => s = Manager
    /\ v[Acct(s)].bal - Threshold(NewAccount(r, offset)) >= Threshold(v[Acct(s)])
    /\ OwnChoice(s, i) => v[Acct(i)] = Missing
New(v, c, s, r, offset, i) ==
    LET a  == NewAccount(r, offset)
        id == IF OwnChoice(s, i) THEN i ELSE c.newId
        c1 == WithAccount(c, s, [v[Acct(s)] EXCEPT !.bal = @ - a.bal])
        c2 == With(WithAccount(c1, id, a), Only(Avail(id, r), <<>>))
    IN  IF OwnChoice(s, i) THEN c2
        ELSE [c2 EXCEPT !.newId =
                 CheckServiceId(v, FirstPublic + ((id - FirstPublic + 42) % PublicIds))]

Upgrade(v, c, s, code) == WithAccount(c, s, [v[Acct(s)] EXCEPT !.code = code])

\* As if a forgotten preimage could go at once.
ExpiredAtOnce(history, t) == Len(history) = 2 /\ history[2] < t
\* Forgotten more than Expunge slots ago.
Expired(history, t) == Len(history) = 2 /\ history[2] < t - Expunge

CanEject(v, s, d, r, t) ==
    /\ d # s /\ v[Acct(d)] # Missing
    /\ v[Acct(d)].code = s /\ v[Acct(d)].items = 2
    /\ r[2] = Max({81, v[Acct(d)].octets}) - 81
    /\ v[Avail(d, r)] # Missing /\ Expired(v[Avail(d, r)], t)
Eject(v, c, s, d, r) ==
    WithAccount(With(c, [key \in {Blob(d, r[1]), Avail(d, r), Acct(d)} |-> Missing]),
                s, [v[Acct(s)] EXCEPT !.bal = @ + v[Acct(d)].bal])

\* As if overwriting an item added one.
WrittenAgain(v, s, k, size) ==
    LET old == v[Stored(s, k)] IN
    CASE size > 0 -> Grown(v[Acct(s)], 1, ItemOctets(size))
      [] size = 0 /\ old # Missing -> Grown(v[Acct(s)], -1, -ItemOctets(old))
      [] OTHER -> v[Acct(s)]

\* write with a value of the given size; size 0 deletes.
Written(v, s, k, size) ==
    LET old == v[Stored(s, k)] IN
    CASE size = 0 /\ old = Missing -> v[Acct(s)]
      [] size = 0 /\ old # Missing -> Grown(v[Acct(s)], -1, -ItemOctets(old))
      [] size > 0 /\ old = Missing -> Grown(v[Acct(s)], 1, ItemOctets(size))
      [] size > 0 /\ old # Missing -> Grown(v[Acct(s)], 0, size - old)
\* As if the balance were checked before the footprint grows.
CanWriteBefore(v, s, k, size) == Threshold(v[Acct(s)]) <= v[Acct(s)].bal
CanWrite(v, s, k, size) ==
    Threshold(Written(v, s, k, size)) <= Written(v, s, k, size).bal
Write(v, c, s, k, size) ==
    WithAccount(With(c, Only(Stored(s, k), IF size = 0 THEN Missing ELSE size)),
                s, Written(v, s, k, size))

Soliciting(v, s, r) ==
    IF v[Avail(s, r)] = Missing THEN Grown(v[Acct(s)], 2, PreimageOctets(r[2]))
    ELSE v[Acct(s)]
CanSolicit(v, s, r) ==
    /\ v[Avail(s, r)] # Missing => Len(v[Avail(s, r)]) = 2
    /\ Soliciting(v, s, r).bal >= Threshold(Soliciting(v, s, r))
Solicit(v, c, s, r, t) ==
    WithAccount(With(c, Only(Avail(s, r), IF v[Avail(s, r)] = Missing THEN <<>>
                                          ELSE Append(v[Avail(s, r)], t))),
                s, Soliciting(v, s, r))

\* A request that can go at once: never provided, or expired.
Droppable(history, t) == history = <<>> \/ Expired(history, t)
CanForget(v, s, r, t) ==
    /\ v[Avail(s, r)] # Missing
    /\ \/ Droppable(v[Avail(s, r)], t)
       \/ Len(v[Avail(s, r)]) = 1
       \/ Len(v[Avail(s, r)]) = 3 /\ v[Avail(s, r)][2] < t - Expunge
\* The preimage of the hash goes with the request, whatever length that names.
Forget(v, c, s, r, t) ==
    LET history == v[Avail(s, r)] IN
    IF Droppable(history, t)
    THEN WithAccount(With(c, [key \in {Avail(s, r), Blob(s, r[1])} |-> Missing]),
                     s, Grown(v[Acct(s)], -2, -PreimageOctets(r[2])))
    ELSE With(c, Only(Avail(s, r), IF Len(history) = 1 THEN Append(history, t)
                                   ELSE <<history[3], t>>))

CanProvide(v, c, d, h) ==
    /\ v[Acct(d)] # Missing /\ v[Avail(d, Answerable(h))] = <<>>
    /\ <<d, h>> \notin c.provided
Provide(c, d, h) == [c EXCEPT !.provided = @ \cup {<<d, h>>}]

\* historical_preimage_lookup: was the preimage available at slot t?
Shows(a, t) ==
    \/ Len(a) = 1 /\ a[1] <= t
    \/ Len(a) \in {2, 3} /\ a[1] <= t /\ t < a[2]
    \/ Len(a) = 3 /\ a[3] <= t
Lookup(db, s, h, t) ==
    /\ db[Blob(s, h)] # Missing /\ db[Avail(s, Answerable(h))] # Missing
    /\ Shows(db[Avail(s, Answerable(h))], t)

-----------------------------------------------------------------------------
(* What an account promises, in any function v from keys to values.        *)

Items(v, s) == {k \in Item : v[Stored(s, k)] # Missing}
Requests(v, s) == {r \in Request : v[Avail(s, r)] # Missing}

\* footprint_storage_items and footprint_storage_bytes count what is there.
ExactFootprint(v, s) ==
    /\ v[Acct(s)].items = Cardinality(Items(v, s)) + 2 * Cardinality(Requests(v, s))
    /\ v[Acct(s)].octets =
          SumFunction([k \in Items(v, s) |-> ItemOctets(v[Stored(s, k)])])
          + SumFunction([r \in Requests(v, s) |-> PreimageOctets(r[2])])

\* threshold_balance is covered.
CoversThreshold(v, s) == v[Acct(s)].bal >= Threshold(v[Acct(s)])

\* Nothing belongs to a service that is gone, and no preimage is there unless its
\* request has been answered.
Tidy(v, s) ==
    /\ ~Exists(v, s) => Items(v, s) = {} /\ Requests(v, s) = {}
    /\ \A h \in Hash : v[Blob(s, h)] # Missing => v[Avail(s, Answerable(h))] \notin {Missing, <<>>}

Sound(v, s) ==
    /\ v[Acct(s)] \in Account \cup {Missing}
    /\ \A k \in Item : v[Stored(s, k)] \in Nat \cup {Missing}
    /\ \A r \in Request : v[Avail(s, r)] \in Seq(Nat) \cup {Missing}
    /\ Tidy(v, s)
    /\ Exists(v, s) => ExactFootprint(v, s) /\ CoversThreshold(v, s)
=============================================================================
