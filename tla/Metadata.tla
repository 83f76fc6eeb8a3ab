------------------------------ MODULE Metadata ------------------------------
(***************************************************************************)
(* AddressMetadata as the keyserver sees it: who signed what, for which    *)
(* address, and until when it lives.  Byte strings are abstracted to what  *)
(* the code does with them: they decode to a value or they are Garbage.    *)
(***************************************************************************)
EXTENDS Integers

CONSTANTS
    PubKeys,       \* byte strings that deserialize to secp256k1 public keys
    Bodies,        \* 20-byte address bodies, the keys of the database
    RawAddress,    \* RawAddress[k]: Hash160 of the serialized public key k
    Entries,       \* contents of a payload the server never looks into
    Schemes,       \* values of the protobuf enum "scheme"; 1 is ECDSA
    MaxI64,        \* i64::MAX; TLC uses a small stand-in
    Garbage,       \* bytes that do not decode
    None           \* Option::None

ASSUME MetadataAssumption ==
    /\ RawAddress \in [PubKeys -> Bodies]
    /\ MaxI64 \in Nat
    /\ Garbage \notin PubKeys \cup Bodies

MinI64 == -MaxI64 - 1
I64 == MinI64 .. MaxI64

Payload == [timestamp : I64, ttl : I64, entries : Entries]

\* A signature is identified with the key that made it and the bytes it signs.
Signature == [key : PubKeys, msg : Payload \cup {Garbage}]

AddressMetadata ==
    [pub_key            : PubKeys \cup {Garbage},
     serialized_payload : Payload \cup {Garbage},
     signature          : Signature \cup {Garbage},
     scheme             : Schemes]

ASSUME NoneAssumption == None \notin AddressMetadata \cup {Garbage}
ASSUME GarbageAssumption == Garbage \notin Payload \cup Signature \cup AddressMetadata

\* Two's complement addition of two i64 as the release build computes it.
WrappingAdd(x, y) ==
    LET sum == x + y IN
    IF sum > MaxI64 THEN sum - 2 * (MaxI64 + 1)
    ELSE IF sum < MinI64 THEN sum + 2 * (MaxI64 + 1)
    ELSE sum

\* The entry is past its time to live at time t.
expired(payload, t) == WrappingAdd(payload.timestamp, payload.ttl) < t

\* The address body a public key hashes to.
to_raw_address(key) == RawAddress[key]

\* Secp256k1::verify: nobody signs with a key that is not theirs.
verify(msg, key, sig) == sig = [key |-> key, msg |-> msg]

\* The error of authentication::validate::<Secp256k1>, or "Ok".
validate(body, m) ==
    IF m.pub_key = Garbage THEN "PubkeyDeserialization"
    ELSE IF to_raw_address(m.pub_key) # body THEN "Preimage"
    ELSE IF m.signature = Garbage THEN "SigDeserialization"
    ELSE IF ~verify(m.serialized_payload, m.pub_key, m.signature) THEN "Verification"
    ELSE "Ok"

ValidationResults ==
    {"Ok", "PubkeyDeserialization", "Preimage", "SigDeserialization", "Verification"}

\* m is a statement of the owner of address body about it (README.md: updates
\* "are tied to a keyid").
Authentic(body, m) ==
    /\ m.pub_key \in PubKeys
    /\ RawAddress[m.pub_key] = body
    /\ m.signature = [key |-> m.pub_key, msg |-> m.serialized_payload]
=============================================================================
