------------------------------ MODULE ECGroup -------------------------------
(***************************************************************************)
(* The elliptic-curve collaborator of SM2 (spec.md 3 and 6, ECGroup): a    *)
(* short-Weierstrass curve y^2 = x^3 + A*x + B over the prime field F_P    *)
(* whose base point Gen has prime order N.  The model instantiates it with *)
(* a curve small enough to enumerate.                                      *)
(*                                                                         *)
(* The group <Gen> is cyclic, so the model names each of its points by    *)
(* its discrete logarithm: j in 0 .. N-1 stands for [j]Gen, 0 for the     *)
(* point at infinity.  Point addition and scalar multiplication are then  *)
(* arithmetic mod N, and the affine x-coordinate of [j]Gen is XCoord[j].  *)
(* The assumption below checks XCoord against the textbook group law in  *)
(* affine coordinates, so the representation is exact for the curve.     *)
(***************************************************************************)
EXTENDS Integers

CONSTANTS
  P, A, B,     \* the field and the curve coefficients
  Gen,         \* the base point, as <<x, y>>
  N,           \* its order, prime
  XCoord       \* XCoord[j] = affine x-coordinate of [j]Gen, j in 1 .. N-1

(* a^e mod m by square and multiply. *)
RECURSIVE PowMod(_, _, _)
PowMod(a, e, m) ==
  IF e = 0 THEN 1 % m
  ELSE LET h == PowMod(a, e \div 2, m)
           hh == (h * h) % m
       IN  IF e % 2 = 0 THEN hh ELSE (hh * (a % m)) % m

FieldInv(a) == PowMod(a % P, P - 2, P)

(* The point at infinity, in affine terms. *)
Infinity == <<>>

OnCurve(pt) == (pt[2] * pt[2] - (pt[1] * pt[1] * pt[1] + A * pt[1] + B)) % P = 0

(* The group law in affine coordinates. *)
PointAdd(p1, p2) ==
  IF p1 = Infinity THEN p2
  ELSE IF p2 = Infinity THEN p1
  ELSE IF p1[1] = p2[1] /\ (p1[2] + p2[2]) % P = 0 THEN Infinity
  ELSE LET lam == IF p1 = p2
                    THEN ((3 * p1[1] * p1[1] + A) * FieldInv(2 * p1[2])) % P
                    ELSE (((p2[2] - p1[2]) % P) * FieldInv(p2[1] - p1[1])) % P
           x3 == (lam * lam - p1[1] - p2[1]) % P
       IN  <<x3, (lam * (p1[1] - x3) - p1[2]) % P>>

RECURSIVE ScalarMulRec(_, _)
ScalarMulRec(k, pt) == IF k = 0 THEN Infinity ELSE PointAdd(pt, ScalarMulRec(k - 1, pt))

ASSUME /\ OnCurve(Gen)
       /\ ScalarMulRec(N, Gen) = Infinity
       /\ \A j \in 1 .. N - 1 : ScalarMulRec(j, Gen) /= Infinity
                               /\ XCoord[j] = ScalarMulRec(j, Gen)[1]

-----------------------------------------------------------------------------
(* The points of <Gen>, by discrete logarithm. *)
Points == 0 .. N - 1

G == 1

(* EC_POINT_add. *)
Add(p1, p2) == (p1 + p2) % N

(* EC_POINT_mul of a scalar k and a point. *)
Mul(k, pt) == (k * pt) % N

IsInfinity(pt) == pt = 0

(* EC_POINT_get_affine_coordinates: the x-coordinate of a finite point. *)
AffineX(pt) == XCoord[pt]

=============================================================================
