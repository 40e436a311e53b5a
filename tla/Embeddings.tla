----------------------------- MODULE Embeddings -----------------------------
(***************************************************************************)
(* What enrolling and searching compute from an embedding: the bucket keys *)
(* of its random-hyperplane projection, and its sealing under a data key   *)
(* (DEK) that only the person's hardware key unwraps.                      *)
(*                                                                         *)
(* A vector is a sequence of integers, in hundredths: the model's planes   *)
(* and embeddings have few dimensions.  AES-GCM and the key wrapping are   *)
(* taken as perfect: what was sealed under one name and one key opens with *)
(* no other.                                                               *)
(***************************************************************************)
EXTENDS BufferUtils

CONSTANTS
  LSH_HYPERPLANES     \* the planes' normals, by band, then by plane

LSH_BANDS == Len(LSH_HYPERPLANES)

\* There is a band, and every plane is of the embeddings' dimension
\* (LSHProjection checks both).
ASSUME HyperplanesAssumption ==
  /\ LSH_BANDS \in Nat \ {0}
  /\ \A b \in 1 .. LSH_BANDS : \A p \in DOMAIN LSH_HYPERPLANES[b] :
       Len(LSH_HYPERPLANES[b][p]) = Len(LSH_HYPERPLANES[1][1])

-----------------------------------------------------------------------------
(* The projection.                                                         *)

Plane(b, p) == LSH_HYPERPLANES[b][p]

Dot(u, v) == FoldFunction(+, 0, [d \in DOMAIN u |-> u[d] * v[d]])

\* The Euclidean norm is 1, give or take a hundredth.
L2Normalised(e) ==
  /\ Len(e) = Len(LSH_HYPERPLANES[1][1])
  /\ Dot(e, e) \in 99 * 99 .. 101 * 101

\* The key of a band: the planes that have the embedding on their positive
\* side, which are the bits of the number in the code's "<band>_<number>".
computeBandKey(e, b) ==
  {p \in DOMAIN LSH_HYPERPLANES[b] : Dot(e, Plane(b, p)) > 0}

computeBucketKeys(e) == [b \in 1 .. LSH_BANDS |-> computeBandKey(e, b)]

\* Two embeddings share a bucket when they agree on one whole band.
ShareBucket(k, l) == \E b \in 1 .. LSH_BANDS : k[b] = l[b]

-----------------------------------------------------------------------------
(* Sealing.                                                                *)

\* AES-GCM under dek, with the person's identifier as additional data.
encrypt(data, person, dek) == [data |-> data, aad |-> person, key |-> dek]

decrypt(blob, person, dek) ==
  IF blob.aad = person /\ blob.key = dek THEN blob.data ELSE Rejected

\* The DEK under the person's hardware key; present: the aliases there are.
wrapDEK(person, dek) == [alias |-> person, dek |-> dek]

unwrapDEK(person, wrapped, present) ==
  IF person \in present /\ wrapped.alias = person THEN wrapped.dek ELSE Rejected
=============================================================================
