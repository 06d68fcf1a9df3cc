------------------------------- MODULE Manifest -------------------------------
(***************************************************************************)
(* ModelManifest of sce/core.py: how a manifest is validated, made         *)
(* immutable, serialised and fingerprinted, while the caller goes on       *)
(* changing the dict it passed as `extra'.                                 *)
(*                                                                         *)
(* Dicts live on a heap, so that sharing one is not the same as copying    *)
(* it.  A dict is the sequence of its items in insertion order, as in      *)
(* Python.  Bytes are natural numbers; a fixed-width length is one of      *)
(* them, so it may look like a byte of a string.                           *)
(***************************************************************************)
EXTENDS Naturals, SequencesExt

CONSTANTS Strings,        \* str values in use
          NotStr,         \* a value of another type
          Nfc,            \* unicodedata.normalize("NFC", _): [Strings -> Strings]
          Utf8,           \* str.encode("utf-8"): [Strings -> Seq(Nat) or NoBytes]
          NoBytes,        \* what a lone surrogate has instead of UTF-8 bytes
          MaxLpField,     \* _MAX_LP_FIELD: the most bytes of a length-prefixed field
          CoreFields,     \* the core fields, in the order of serialisation
          Cores,          \* the core values in use: functions from fields to values
          Keys, Values,   \* the keys and values in use in `extra'
          MaxExtra,       \* bound: items in a dict
          MaxManifests    \* bound: manifests constructed

ASSUME NfcAssumption    == Nfc \in [Strings -> Strings] /\ \A s \in Strings : Nfc[Nfc[s]] = Nfc[s]
ASSUME Utf8Assumption   ==
  /\ \A s \in Strings : Utf8[s] = NoBytes \/ Utf8[s] \in Seq(Nat)
  /\ \A s, t \in Strings : s # t => Utf8[s] # Utf8[t] \/ Utf8[s] = NoBytes
ASSUME FieldsAssumption == CoreFields \in Seq(STRING)
ASSUME NotStrAssumption == NotStr \notin Strings
ASSUME CoresAssumption  ==
  Cores \subseteq [{CoreFields[n] : n \in DOMAIN CoreFields} -> Strings \cup {NotStr}]
ASSUME ExtraAssumption  == Keys \cup Values \subseteq Strings \cup {NotStr}
ASSUME BoundsAssumption == {MaxLpField, MaxExtra, MaxManifests} \subseteq Nat

VARIABLES
  heap,        \* every dict: a sequence of <<key, value>>; heap[1] is the caller's
  manifests,   \* every manifest: [core, extra (its dict on the heap), memh]
  outcome,     \* how the last constructor call ended
  cloned       \* the manifest the last call cloned, 0 if it did not clone

vars == <<heap, manifests, outcome, cloned>>

CallersDict == 1

\* The bytes of a string's NFC form.
NfcUtf8(s) == Utf8[Nfc[s]]
-------------------------------------------------------------------------------
(***************************************************************************)
(* canonical_bytes and memh.                                               *)
(***************************************************************************)

\* Mutant: no length prefix.
EncStrBare(s) == NfcUtf8(s)

EncStr(s) == <<Len(NfcUtf8(s))>> \o NfcUtf8(s)

BytesBefore(a, b) ==
  \/ IsStrictPrefix(a, b)
  \/ \E n \in DOMAIN a \cap DOMAIN b :
       a[n] < b[n] /\ SubSeq(a, 1, n - 1) = SubSeq(b, 1, n - 1)

\* The order of sorted(items, key = NFC-UTF-8 of the item's key), a stable sort.
Before(items, m, n) ==
  LET a == NfcUtf8(items[m][1])
      b == NfcUtf8(items[n][1])
  IN  BytesBefore(a, b) \/ (a = b /\ m < n)

Rank(items, n) == Cardinality({m \in DOMAIN items : Before(items, m, n)}) + 1

SortedItems(items) ==
  [k \in DOMAIN items |-> items[CHOOSE n \in DOMAIN items : Rank(items, n) = k]]

CanonicalBytes(core, items) ==
  <<"SCEMAN1">>
    \o FlattenSeq([n \in DOMAIN CoreFields |-> EncStr(core[CoreFields[n]])])
    \o <<Len(items)>>
    \o FlattenSeq([n \in DOMAIN items |->
                     EncStr(SortedItems(items)[n][1]) \o EncStr(SortedItems(items)[n][2])])

\* SHA3-256, taken as injective.
Memh(core, items) == [sha3 |-> CanonicalBytes(core, items)]
-------------------------------------------------------------------------------
(***************************************************************************)
(* __post_init__.                                                          *)
(***************************************************************************)
TypeFault(core, items) ==
  \/ \E f \in DOMAIN core : core[f] = NotStr
  \/ \E n \in DOMAIN items : NotStr \in {items[n][1], items[n][2]}

\* Mutant: keys are compared as they were given.
KeysCollideRaw(items) ==
  \E m, n \in DOMAIN items : m # n /\ items[m][1] = items[n][1]

KeysCollide(items) ==
  \E m, n \in DOMAIN items : m # n /\ Nfc[items[m][1]] = Nfc[items[n][1]]

\* The strings canonical_bytes encodes, in order: the core fields, the keys (to
\* sort them; no length check there), then key and value of every item.
Encodings(core, items) ==
  LET lp(s)  == [text |-> s, limited |-> TRUE]
      sorted == SortedItems(items)
  IN  [n \in DOMAIN CoreFields |-> lp(core[CoreFields[n]])]
        \o [n \in DOMAIN items |-> [text |-> items[n][1], limited |-> FALSE]]
        \o (IF \E n \in DOMAIN items : NfcUtf8(items[n][1]) = NoBytes THEN <<>>
            ELSE FlattenSeq([n \in DOMAIN items |-> <<lp(sorted[n][1]), lp(sorted[n][2])>>]))

Unencodable(x) == NfcUtf8(x.text) = NoBytes
Overlong(x)    == x.limited /\ ~ Unencodable(x) /\ Len(NfcUtf8(x.text)) > MaxLpField

\* The first string that cannot be encoded decides the error.
EncodingResult(core, items) ==
  LET all  == Encodings(core, items)
      bad  == SelectInSeq(all, LAMBDA x : Unencodable(x) \/ Overlong(x))
  IN  IF bad = 0 THEN "ok"
      ELSE IF Unencodable(all[bad]) THEN "UnicodeEncodeError"
      ELSE "SCEError"

ConstructResult(core, items) ==
  IF TypeFault(core, items) \/ KeysCollide(items) THEN "SCEError"
  ELSE EncodingResult(core, items)

\* Mutant: the dict behind the read-only view is the one that was passed.
SharedDict == CallersDict

OwnDict == Len(heap) + 1

\* The constructor called with a dict of these items: a private copy is taken and
\* the fingerprint computed from it, once.
PostInit(core, items) ==
  LET result == ConstructResult(core, items)
  IN  /\ outcome' = result
      /\ IF result = "ok"
           THEN /\ heap' = Append(heap, items)
                /\ manifests' = Append(manifests,
                     [core |-> core, extra |-> OwnDict, memh |-> Memh(core, items)])
           ELSE UNCHANGED <<heap, manifests>>
-------------------------------------------------------------------------------
(***************************************************************************)
(* Actions.                                                                *)
(***************************************************************************)

\* `extra' is not a mapping at all.
ConstructNotMapping ==
  /\ outcome' = "SCEError"
  /\ cloned' = 0
  /\ UNCHANGED <<heap, manifests>>

Construct(core) ==
  /\ Len(manifests) < MaxManifests
  /\ PostInit(core, heap[CallersDict])
  /\ cloned' = 0

\* Mutant: the extra entries do not survive.
ReducedWithoutExtra(m) == <<>>

ReducedItems(m) == heap[manifests[m].extra]

\* __reduce__: pickling and unpickling, or copying, constructs the manifest
\* again from a plain dict of its items.
Clone(m) ==
  /\ Len(manifests) < MaxManifests
  /\ PostInit(manifests[m].core, ReducedItems(m))
  /\ cloned' = m

\* The caller stores an item: in place if the key is there, else at the end.
CallerStores(key, value) ==
  LET d == heap[CallersDict]
      n == SelectInSeq(d, LAMBDA item : item[1] = key)
  IN  /\ IF n = 0 THEN Len(d) < MaxExtra ELSE d[n][2] # value
      /\ heap' = [heap EXCEPT ![CallersDict] =
                    IF n = 0 THEN Append(d, <<key, value>>) ELSE ReplaceAt(d, n, <<key, value>>)]
      /\ UNCHANGED <<manifests, outcome, cloned>>

CallerDeletes(n) ==
  /\ heap' = [heap EXCEPT ![CallersDict] = RemoveAt(@, n)]
  /\ UNCHANGED <<manifests, outcome, cloned>>

Init == heap = << <<>> >> /\ manifests = <<>> /\ outcome = "none" /\ cloned = 0

Next ==
  \/ ConstructNotMapping
  \/ \E core \in Cores : Construct(core)
  \/ \E m \in DOMAIN manifests : Clone(m)
  \/ \E key \in Keys, value \in Values : CallerStores(key, value)
  \/ \E n \in DOMAIN heap[CallersDict] : CallerDeletes(n)

Spec == Init /\ [][Next]_vars
-------------------------------------------------------------------------------
(***************************************************************************)
(* Properties.                                                             *)
(***************************************************************************)
Items(m) == heap[manifests[m].extra]

\* Type invariant.
TypeOK ==
  /\ \A d \in DOMAIN heap : Len(heap[d]) \in 0 .. MaxExtra
  /\ \A m \in DOMAIN manifests :
       /\ manifests[m].core \in Cores
       /\ manifests[m].extra \in 2 .. Len(heap)
  /\ outcome \in {"none", "ok", "SCEError", "UnicodeEncodeError"}
  /\ cloned \in 0 .. Len(manifests)

\* What a manifest says, whatever the Unicode form and the order it was said in.
Environment(m) ==
  [core  |-> [f \in DOMAIN manifests[m].core |-> Nfc[manifests[m].core[f]]],
   extra |-> {<<Nfc[Items(m)[n][1]], Nfc[Items(m)[n][2]]>> : n \in DOMAIN Items(m)}]

\* The fingerprint identifies the environment: two live manifests share a MEMH
\* exactly when they say the same, up to Unicode normalisation and the order of
\* the extra entries.
MemhIdentifiesEnvironment ==
  \A m, n \in DOMAIN manifests :
    manifests[m].memh = manifests[n].memh <=> Environment(m) = Environment(n)

\* The fingerprint cached at construction is still that of what the manifest
\* shows, whatever the caller has done with its dict since.
CachedMemhIsCurrent ==
  \A m \in DOMAIN manifests :
    manifests[m].memh = Memh(manifests[m].core, Items(m))

\* A manifest sent across a process boundary arrives, and opens what the
\* original opens.
ClonesShareMemh ==
  cloned # 0 =>
    outcome = "ok" /\ manifests[Len(manifests)].memh = manifests[cloned].memh

\* No error but the library's own leaves a public entry point (SPEC.md section
\* 10).  It does not hold: a lone surrogate has no UTF-8 bytes, and _enc_str and
\* the sort key of canonical_bytes encode without a check.
OnlySCEErrorsEscape == outcome # "UnicodeEncodeError"
===============================================================================
