------------------------------- MODULE AMath -------------------------------
(***************************************************************************)
(* The exact-arithmetic routines of AMath.cpp: the matrix product,        *)
(* transpose and in-place inverse, the linear least-squares solve built on *)
(* them, and the Lagrange, cubic-spline and bilinear interpolations.       *)
(* A double is modelled as an exact rational [num, den] in lowest terms;   *)
(* rounding is not modelled.  A division by zero yields NonFinite, which   *)
(* stands for both inf and NaN: it absorbs every operation and compares   *)
(* false, as NaN does (1/inf = 0 is the one IEEE rule this drops; no      *)
(* routine below divides by a result that could be inf).  Arrays keep the *)
(* code's 0-based indices; a row-major N x N array is a function on       *)
(* 0..N-1 \X 0..N-1.                                                       *)
(***************************************************************************)
EXTENDS Integers, SequencesExt

CONSTANTS
  Entries2,  \* the entries of the 2 x 2 matrices inverted and solved
  Entries3,  \* the entries of the 3 x 3 matrices inverted
  Knots,     \* increasing knot sequences XI (their prefixes are used too)
  Points     \* the points XO interpolated, as a sequence

\* The last call made into the library: the routine, its arguments and
\* what it returned (NoCall between calls).  The routines keep no state
\* of their own between calls.
VARIABLE call

RECURSIVE Gcd(_, _)
Gcd(a, b) == IF b = 0 THEN a ELSE Gcd(b, a % b)

AbsInt(n) == IF n < 0 THEN -n ELSE n

NonFinite == [num |-> 0, den |-> 0]
Finite(x) == x.den # 0

\* n / d in lowest terms, the denominator positive (d # 0).
Frac(n, d) ==
  LET g == Gcd(AbsInt(n), AbsInt(d))
      s == IF d < 0 THEN -1 ELSE 1
  IN  [num |-> (s * n) \div g, den |-> (s * d) \div g]

Dbl(n) == [num |-> n, den |-> 1]
DZero == Dbl(0)
DOne == Dbl(1)

DAdd(x, y) == IF Finite(x) /\ Finite(y)
                THEN Frac(x.num * y.den + y.num * x.den, x.den * y.den) ELSE NonFinite
DNeg(x) == [x EXCEPT !.num = -@]
DSub(x, y) == DAdd(x, DNeg(y))
DMul(x, y) == IF Finite(x) /\ Finite(y) THEN Frac(x.num * y.num, x.den * y.den) ELSE NonFinite
DDiv(x, y) == IF Finite(x) /\ Finite(y) /\ y.num # 0
                THEN Frac(x.num * y.den, x.den * y.num) ELSE NonFinite
DAbs(x) == [x EXCEPT !.num = AbsInt(@)]
DLt(x, y) == Finite(x) /\ Finite(y) /\ x.num * y.den < y.num * x.den
DLe(x, y) == DLt(x, y) \/ (Finite(x) /\ x = y)

\* The "t += ..." and "t *= ..." loops over lo..hi, in exact arithmetic.
RECURSIVE DSum(_, _, _)
DSum(F(_), lo, hi) == IF lo > hi THEN DZero ELSE DAdd(F(lo), DSum(F, lo + 1, hi))
RECURSIVE DProd(_, _, _)
DProd(F(_), lo, hi) == IF lo > hi THEN DOne ELSE DMul(F(lo), DProd(F, lo + 1, hi))

Idx(n) == 0..(n - 1)

\* The array f held as a table.  TLC evaluates a function constructor anew
\* on each application; a spline of splines nested that way grows past its
\* stack, and f @@ f, the same function, is evaluated once.
Table(f) == f @@ f
\* lo, lo+1, ..., hi and hi, hi-1, ..., lo, as sequences for FoldLeft.
Upward(lo, hi) == [k \in 1..(hi - lo + 1) |-> lo + k - 1]
Downward(hi, lo) == [k \in 1..(hi - lo + 1) |-> hi - k + 1]

-----------------------------------------------------------------------------
(* Matrices.                                                               *)

\* MatRealMult: RM (M x N) = A (M x L) * B (L x N); column i of B is copied
\* to q0, then each row of A is multiplied with it.
MatRealMult(M, L, N, A, B) ==
  [j \in Idx(M), i \in Idx(N) |-> DSum(LAMBDA k : DMul(A[j, k], B[k, i]), 0, L - 1)]

\* MatTrans: B (N x M) is the transpose of A (M x N).
MatTrans(M, N, A) == [i \in Idx(N), j \in Idx(M) |-> A[j, i]]

SwapRows(N, a, r1, r2) ==
  [r \in Idx(N), c \in Idx(N) |-> CASE r = r1 -> a[r2, c] [] r = r2 -> a[r1, c]
                                    [] OTHER -> a[r, c]]
SwapCols(N, a, c1, c2) ==
  [r \in Idx(N), c \in Idx(N) |-> CASE c = c1 -> a[r, c2] [] c = c2 -> a[r, c1]
                                    [] OTHER -> a[r, c]]

\* The pivot search of column j: the first row from j on whose |a[k, j]| is
\* strictly larger than every one before it.
PivotRow(N, a, j) ==
  FoldLeft(LAMBDA lc, k : IF DLt(DAbs(a[lc, j]), DAbs(a[k, j])) THEN k ELSE lc,
           j, Upward(j + 1, N - 1))

\* "s < zr * tq" with zr = 1e-15.  Every non-zero pivot of the matrices
\* checked (entries of magnitude at most 2, N at most 3, and GaussFit2D's
\* 5 x 5 sums of small integers) is a ratio of integer minors, many orders
\* above 1e-15 of tq, so the test is true exactly when s is 0 and tq is
\* not; NaN compares false.
BelowZr(s, tq) == Finite(s) /\ s.num = 0 /\ DLt(DZero, tq)

\* One pass of MatInvert's first loop, for column j: the forward
\* substitution of the column (j > 0; row i subtracts its first min(i, j)
\* products with the already updated rows above), the pivot search, the
\* running maximum tq, the singularity test, the row swap recorded in le,
\* and the scaling of the column below the pivot by 1 / pivot.
LUColumn(N, st, j) ==
  IF st.rc # 0 THEN st
  ELSE
  LET a0 == st.a
      fwd[i \in Idx(N)] ==
        IF i = 0 \/ j = 0 THEN a0[i, j]
        ELSE DSub(a0[i, j], DSum(LAMBDA k : DMul(a0[i, k], fwd[k]), 0,
                                 (IF i < j THEN i ELSE j) - 1))
      a1 == [r \in Idx(N), c \in Idx(N) |-> IF c = j THEN fwd[r] ELSE a0[r, c]]
      lc == PivotRow(N, a1, j)
      s  == DAbs(a1[lc, j])
      tq == IF DLt(s, st.tq) THEN st.tq ELSE s
      a2 == SwapRows(N, a1, j, lc)
      t  == DDiv(DOne, a2[j, j])
  IN  IF BelowZr(s, tq) THEN [st EXCEPT !.a = a1, !.tq = tq, !.rc = -1]
      ELSE [a  |-> [r \in Idx(N), c \in Idx(N) |->
                      CASE c = j /\ r > j -> DMul(a2[r, c], t)
                        [] c = j /\ r = j -> t
                        [] OTHER          -> a2[r, c]],
            tq |-> tq, le |-> [st.le EXCEPT ![j] = lc], rc |-> 0]

\* Mutation variant: the diagonal scaled too.
ScaleUpperWithDiagonal(N, a) ==
  [r \in Idx(N), c \in Idx(N) |-> IF r <= c THEN DMul(a[r, c], a[c, c]) ELSE a[r, c]]

\* The second loop: each column above the diagonal times its diagonal.
ScaleUpper(N, a) ==
  [r \in Idx(N), c \in Idx(N) |-> IF r < c THEN DMul(a[r, c], a[c, c]) ELSE a[r, c]]

\* The third loop, for column j: the upper triangle is inverted in place;
\* q0 holds the column as it was, so each new entry reads old ones only.
InvUpperCol(N, a, j) ==
  [r \in Idx(N), c \in Idx(N) |->
     IF c = j /\ r < j THEN DNeg(DSum(LAMBDA i : DMul(a[r, i], a[i, j]), r, j - 1))
     ELSE a[r, c]]

\* The fourth loop, for column j (from N-2 down): the unit lower triangle.
InvLowerCol(N, a, j) ==
  [r \in Idx(N), c \in Idx(N) |->
     IF c = j /\ r > j
       THEN DSub(DNeg(a[r, j]), DSum(LAMBDA i : DMul(a[r, i], a[i, j]), j + 1, r - 1))
     ELSE a[r, c]]

\* The fifth loop, for column k: the product of the two inverted triangles.
ProductCol(N, a, k) ==
  [r \in Idx(N), c \in Idx(N) |->
     IF c = k
       THEN DAdd(IF r > k THEN DZero ELSE a[r, k],
                 DSum(LAMBDA i : DMul(a[r, i], a[i, k]), IF r > k THEN r ELSE k + 1, N - 1))
     ELSE a[r, c]]

\* MatInvert: the first loop column by column; then, on its result lu,
\* the other loops in order and the row swaps undone as column swaps from
\* N-2 down.  -1 when the singularity test fires, A then left half
\* transformed; 0 with A holding the inverse otherwise.
LUInverse(N, lu) ==
  IF lu.rc # 0 THEN [rc |-> -1, a |-> lu.a]
  ELSE [rc |-> 0,
        a  |-> FoldLeft(LAMBDA a, j : SwapCols(N, a, j, lu.le[j]),
                 FoldLeft(LAMBDA a, k : ProductCol(N, a, k),
                   FoldLeft(LAMBDA a, j : InvLowerCol(N, a, j),
                     FoldLeft(LAMBDA a, j : InvUpperCol(N, a, j), ScaleUpper(N, lu.a),
                              Upward(1, N - 1)),
                     Downward(N - 2, 0)),
                   Upward(0, N - 2)),
                 Downward(N - 2, 0))]

MatInvert(N, A) ==
  LUInverse(N, FoldLeft(LAMBDA st, j : LUColumn(N, st, j),
                        [a |-> A, tq |-> DZero, le |-> [j \in Idx(N) |-> 0], rc |-> 0],
                        Upward(0, N - 1)))

\* LSLinearSolve: X = A^-1 Y, false when MatInvert fails (Y is M x 1).
SolveWith(M, Y, inv) ==
  IF inv.rc # 0 THEN [ok |-> FALSE]
  ELSE [ok |-> TRUE, x |-> MatRealMult(M, M, 1, inv.a, Y)]
LSLinearSolve(M, Y, A) == SolveWith(M, Y, MatInvert(M, A))

-----------------------------------------------------------------------------
(* Interpolation.  XI, YI, ZI and XO are 0-based arrays of doubles.        *)

\* Bilinear: ZI holds the values at (XI[0], YI[0]), (XI[1], YI[0]),
\* (XI[0], YI[1]) and (XI[1], YI[1]).
Bilinear(XI, YI, ZI, X0, Y0) ==
  LET f1 == DMul(ZI[0], DMul(DSub(XI[1], X0), DSub(YI[1], Y0)))
      f2 == DMul(ZI[1], DMul(DSub(X0, XI[0]), DSub(YI[1], Y0)))
      f3 == DMul(ZI[2], DMul(DSub(XI[1], X0), DSub(Y0, YI[0])))
      f4 == DMul(ZI[3], DMul(DSub(X0, XI[0]), DSub(Y0, YI[0])))
  IN  DDiv(DDiv(DAdd(DAdd(f1, f2), DAdd(f3, f4)), DSub(XI[1], XI[0])), DSub(YI[1], YI[0]))

\* Lagrange's order OD, clamped to 2..N.
LagrangeOrder(N, OD) ==
  LET od == IF OD < 2 THEN 2 ELSE OD IN IF od > N THEN N ELSE od

\* Mutation variant: SI = EI - OD + 2 at the upper end.
LagrangeWindowShortAtEnd(N, XI, od, x) ==
  LET above == {j \in Idx(N) : DLt(x, XI[j])}
      j     == IF above = {} THEN N ELSE CHOOSE j \in above : \A k \in above : j <= k
      si    == j - od \div 2
      w     == IF si < 0 THEN [si |-> 0, ei |-> od - 1] ELSE [si |-> si, ei |-> si + od - 1]
  IN  IF w.ei >= N THEN [si |-> N - od + 1, ei |-> N - 1] ELSE w

\* The points Lagrange interpolates x from: the window of od points that
\* starts od / 2 before the first XI[j] > x (j = N if there is none),
\* moved inside 0..N-1 at either end.
LagrangeWindow(N, XI, od, x) ==
  LET above == {j \in Idx(N) : DLt(x, XI[j])}
      j     == IF above = {} THEN N ELSE CHOOSE j \in above : \A k \in above : j <= k
      si    == j - od \div 2
      w     == IF si < 0 THEN [si |-> 0, ei |-> od - 1] ELSE [si |-> si, ei |-> si + od - 1]
  IN  IF w.ei >= N THEN [si |-> N - od, ei |-> N - 1] ELSE w

\* The Lagrange polynomial through the window's points, at x.
LagrangeAt(XI, YI, w, x) ==
  DSum(LAMBDA i : DMul(DProd(LAMBDA j : IF j = i THEN DOne
                                        ELSE DDiv(DSub(x, XI[j]), DSub(XI[i], XI[j])),
                             w.si, w.ei),
                       YI[i]),
       w.si, w.ei)

Lagrange(N, XI, YI, OD, M, XO) ==
  LET od == LagrangeOrder(N, OD)
  IN  [k \in Idx(M) |-> LagrangeAt(XI, YI, LagrangeWindow(N, XI, od, XO[k]), XO[k])]

\* Mutation variant: each slope divided by the other interval's width.
SplineMomentsSwappedSpacing(N, XI, YI) ==
  LET L == N - 1
      h(i) == DSub(XI[i + 1], XI[i])
      A(i) == CASE i = 0 -> DZero [] i = L -> DOne [] OTHER -> DDiv(h(i - 1), Dbl(6))
      C(i) == CASE i = 0 -> DNeg(DOne) [] i = L -> DZero [] OTHER -> DDiv(h(i), Dbl(6))
      B(i) == CASE i = 0 -> DOne [] i = L -> DNeg(DOne) [] OTHER -> DMul(Dbl(2), DAdd(A(i), C(i)))
      D(i) == IF i = 0 \/ i = L THEN DZero
              ELSE DSub(DDiv(DSub(YI[i + 1], YI[i]), h(i - 1)), DDiv(DSub(YI[i], YI[i - 1]), h(i)))
      cp[i \in Idx(N)] == IF i = 0 THEN C(0)
                          ELSE DDiv(C(i), DSub(B(i), DMul(A(i), cp[i - 1])))
      t(i) == DSub(B(i), DMul(A(i), cp[i - 1]))
      dp[i \in Idx(N)] == IF i = 0 THEN D(0) ELSE DDiv(DSub(D(i), DMul(A(i), dp[i - 1])), t(i))
      mm[i \in Idx(N)] == IF i = L THEN dp[L] ELSE DSub(dp[i], DMul(cp[i], mm[i + 1]))
  IN  mm

\* CubicSpline's tridiagonal system for the second derivatives: the end
\* rows A, B, C, D = 0, 1, -1, 0 and 1, -1, 0, 0 (the second derivative
\* is the same on the first two and on the last two knots), the inner
\* rows from the knot spacing and the slopes; then forward elimination
\* (C and D divided by t = B[i] - A[i] * C[i-1]) and back substitution.
SplineMoments(N, XI, YI) ==
  LET L == N - 1
      h(i) == DSub(XI[i + 1], XI[i])
      A(i) == CASE i = 0 -> DZero [] i = L -> DOne [] OTHER -> DDiv(h(i - 1), Dbl(6))
      C(i) == CASE i = 0 -> DNeg(DOne) [] i = L -> DZero [] OTHER -> DDiv(h(i), Dbl(6))
      B(i) == CASE i = 0 -> DOne [] i = L -> DNeg(DOne) [] OTHER -> DMul(Dbl(2), DAdd(A(i), C(i)))
      D(i) == IF i = 0 \/ i = L THEN DZero
              ELSE DSub(DDiv(DSub(YI[i + 1], YI[i]), h(i)), DDiv(DSub(YI[i], YI[i - 1]), h(i - 1)))
      cp[i \in Idx(N)] == IF i = 0 THEN C(0)
                          ELSE DDiv(C(i), DSub(B(i), DMul(A(i), cp[i - 1])))
      t(i) == DSub(B(i), DMul(A(i), cp[i - 1]))
      dp[i \in Idx(N)] == IF i = 0 THEN D(0) ELSE DDiv(DSub(D(i), DMul(A(i), dp[i - 1])), t(i))
      mm[i \in Idx(N)] == IF i = L THEN dp[L] ELSE DSub(dp[i], DMul(cp[i], mm[i + 1]))
  IN  mm

\* The interval CubicSpline evaluates t on: the first or last outside the
\* knots, else the first [XI[j], XI[j+1]] holding t.
SplineInterval(N, XI, t) ==
  CASE DLt(t, XI[0])     -> 0
    [] DLt(XI[N - 1], t) -> N - 2
    [] OTHER -> CHOOSE j \in Idx(N - 1) : /\ DLe(XI[j], t) /\ DLe(t, XI[j + 1])
                                          /\ \A i \in Idx(j) : ~(DLe(XI[i], t) /\ DLe(t, XI[i + 1]))

Cube(x) == DMul(x, DMul(x, x))

CubicSpline(N, XI, YI, M, XO) ==
  LET mm == SplineMoments(N, XI, YI)
      six == Dbl(6)
      at(t) == LET j == SplineInterval(N, XI, t)
                   k == j + 1
                   p == DSub(XI[k], XI[j])
               IN  DAdd(DDiv(DDiv(DAdd(DMul(mm[j], Cube(DSub(XI[k], t))),
                                       DMul(mm[k], Cube(DSub(t, XI[j])))), six), p),
                        DAdd(DMul(DSub(XI[k], t), DSub(DDiv(YI[j], p), DDiv(DMul(mm[j], p), six))),
                             DMul(DSub(t, XI[j]), DSub(DDiv(YI[k], p), DDiv(DMul(mm[k], p), six)))))
  IN  [i \in Idx(M) |-> at(XO[i])]

\* The end slope of spline that ADefine.h's AMAX stands for: above
\* 0.99 * AMAX, the end is natural (second derivative 0).
Natural == [num |-> 1, den |-> -1]

\* spline: the second derivatives c of the cubic spline through (x, y),
\* by the tridiagonal decomposition: c[i] and u[i] forward from the
\* first end's row, then c[n-1] from the last end's row and back
\* substitution.  An end slope given as a number enters the first row
\* as (3 / h) * dy / (dy - c1) and the last as 3 / h * (cn - dy / h).
spline(n, x, y, c1, cn) ==
  LET fw[i \in Idx(n - 1)] ==
        IF i = 0
          THEN IF c1 = Natural THEN [c |-> DZero, u |-> DZero]
               ELSE [c |-> DNeg(DDiv(DOne, Dbl(2))),
                     u |-> DDiv(DMul(DDiv(Dbl(3), DSub(x[1], x[0])), DSub(y[1], y[0])),
                                DSub(DSub(y[1], y[0]), c1))]
          ELSE LET t1  == DSub(x[i], x[i - 1])
                   t2  == DSub(x[i + 1], x[i - 1])
                   sig == DDiv(t1, t2)
                   p   == DAdd(DMul(sig, fw[i - 1].c), Dbl(2))
               IN  [c |-> DDiv(DSub(sig, DOne), p),
                    u |-> DDiv(DSub(DDiv(DMul(Dbl(6), DSub(DDiv(DSub(y[i + 1], y[i]), DSub(x[i + 1], x[i])),
                                                         DDiv(DSub(y[i], y[i - 1]), t1))), t2),
                                    DMul(sig, fw[i - 1].u)), p)]
      hn == DSub(x[n - 1], x[n - 2])
      qn == IF cn = Natural THEN DZero ELSE DDiv(DOne, Dbl(2))
      un == IF cn = Natural THEN DZero
            ELSE DMul(DDiv(Dbl(3), hn), DSub(cn, DDiv(DSub(y[n - 1], y[n - 2]), hn)))
      last == DDiv(DSub(un, DMul(qn, fw[n - 2].u)), DAdd(DMul(qn, fw[n - 2].c), DOne))
      c[i \in Idx(n)] == IF i = n - 1 THEN last ELSE DAdd(DMul(fw[i].c, c[i + 1]), fw[i].u)
  IN  Table(c)

\* Mutant: the bisection keeps the wrong half.
RECURSIVE BisectSwapped(_, _, _, _)
BisectSwapped(x, xo, klo, khi) ==
  IF khi - klo <= 1 THEN [lo |-> klo, hi |-> khi]
  ELSE LET k == (khi + klo) \div 2
       IN  IF DLt(xo, x[k]) THEN BisectSwapped(x, xo, k, khi) ELSE BisectSwapped(x, xo, klo, k)

\* splint's bisection for the interval [x[klo], x[khi]] holding xo.
RECURSIVE Bisect(_, _, _, _)
Bisect(x, xo, klo, khi) ==
  IF khi - klo <= 1 THEN [lo |-> klo, hi |-> khi]
  ELSE LET k == (khi + klo) \div 2
       IN  IF DLt(xo, x[k]) THEN Bisect(x, xo, klo, k) ELSE Bisect(x, xo, k, khi)

\* splint: the spline's value at xo; false when the interval is empty
\* (|h| < AEPS: h is 0 for distinct knots never).
splint(n, x, y, c, xo) ==
  LET iv == Bisect(x, xo, 0, n - 1)
      h  == DSub(x[iv.hi], x[iv.lo])
      a  == DDiv(DSub(x[iv.hi], xo), h)
      b  == DDiv(DSub(xo, x[iv.lo]), h)
  IN  IF h = DZero THEN [ok |-> FALSE]
      ELSE [ok |-> TRUE,
            yo |-> DAdd(DAdd(DMul(a, y[iv.lo]), DMul(b, y[iv.hi])),
                        DDiv(DMul(DAdd(DMul(DSub(DMul(a, a), DOne), DMul(a, c[iv.lo])),
                                       DMul(DSub(DMul(b, b), DOne), DMul(b, c[iv.hi]))),
                                  DMul(h, h)), Dbl(6)))]

\* Row j of an nr x nc grid, and spline2: a natural spline along each row.
GridRow(nc, y, j) == [k \in Idx(nc) |-> y[j * nc + k]]
spline2(nr, nc, x1, x2, y) ==
  LET rows == [j \in Idx(nr) |-> spline(nc, x2, GridRow(nc, y, j), Natural, Natural)]
  IN  [i \in Idx(nr * nc) |-> rows[i \div nc][i % nc]]

\* splint2: each row's spline at x2o, then a natural spline along x1
\* through those values, at x1o; false as soon as one splint fails.
splint2(nr, nc, x1, x2, y, c, x1o, x2o) ==
  LET col == Table([j \in Idx(nr) |-> LET ytmp == GridRow(nc, y, j)
                                           ctmp == GridRow(nc, c, j)
                                       IN  splint(nc, x2, ytmp, ctmp, x2o)])
      yytmp == [j \in Idx(nr) |-> col[j].yo]
  IN  IF \E j \in Idx(nr) : ~col[j].ok THEN [ok |-> FALSE]
      ELSE splint(nr, x1, yytmp, spline(nr, x1, yytmp, Natural, Natural), x1o)

-----------------------------------------------------------------------------
(* Byte order, correlation and the Gaussian surface fit.                   *)

\* The inner loop of SwapEndian at p: p1 from p up and p2 from p + np down
\* exchange their bytes while p1 < p2.
SwapCell(a, p, np) ==
  FoldLeft(LAMBDA b, k : [b EXCEPT ![p + k] = b[p + np - k], ![p + np - k] = b[p + k]],
           a, Upward(0, (np - 1) \div 2))

\* Mutation variant: the guard inverted, only odd cell sizes swapped.
SwapEndianOddOnly(a, nelement, ncell) ==
  IF ncell % 2 = 0 THEN a
  ELSE FoldLeft(LAMBDA b, i : SwapCell(b, i * ncell, ncell - 1), a, Upward(0, nelement - 1))

\* SwapEndian: nothing for an odd ncell; else the outer loop's cells at
\* p = 0, ncell, ... below ncell * nelement, each reversed in place.
SwapEndian(a, nelement, ncell) ==
  IF ncell % 2 # 0 THEN a
  ELSE FoldLeft(LAMBDA b, i : SwapCell(b, i * ncell, ncell - 1), a, Upward(0, nelement - 1))

\* The ncell bytes of the integer v as memory holds them, least
\* significant first on a little-endian host.
Layout(v, ncell, little) ==
  [k \in 1..ncell |-> (v \div (256 ^ (IF little THEN k - 1 ELSE ncell - k))) % 256]

\* TestSwapEndian: the first byte of the short 0x0102 is 2.
TestSwapEndian(little) == Layout(258, 2, little)[1] = 2

\* Correlation: one pass of sums, the means, rmsx and rmsy over N - 1,
\* then (sumxy - N meanx meany) / rmsx / rmsy.  A square root is not
\* rational, so the result is kept as its sign and its square; an rms of 0
\* (a constant series, or N = 1 where 0 / 0 is NaN) gives NonFinite.
Correlation(N, X, Y) ==
  LET S(F(_)) == DSum(F, 0, N - 1)
      sumx  == S(LAMBDA i : X[i])
      sumy  == S(LAMBDA i : Y[i])
      sumxy == S(LAMBDA i : DMul(X[i], Y[i]))
      sqx   == S(LAMBDA i : DMul(X[i], X[i]))
      sqy   == S(LAMBDA i : DMul(Y[i], Y[i]))
      meanx == DDiv(sumx, Dbl(N))
      meany == DDiv(sumy, Dbl(N))
      rx2   == DDiv(DSub(sqx, DMul(sumx, meanx)), Dbl(N - 1))
      ry2   == DDiv(DSub(sqy, DMul(sumy, meany)), Dbl(N - 1))
      num   == DSub(sumxy, DMul(Dbl(N), DMul(meanx, meany)))
  IN  IF ~(DLt(DZero, rx2) /\ DLt(DZero, ry2)) THEN NonFinite
      ELSE [neg |-> DLt(num, DZero), sq |-> DDiv(DMul(num, num), DMul(rx2, ry2))]

\* The factors z, zx, zy, zx2, zy2 of GaussFit2D's sums, over z, as an
\* array: 1, x, y, x^2, y^2.
GaussBasis(x, y) == [k \in Idx(5) |-> CASE k = 0 -> DOne [] k = 1 -> x [] k = 2 -> y
                                         [] k = 3 -> DMul(x, x) [] k = 4 -> DMul(y, y)]

\* Mutation variant: Q accumulates z ln z times the basis, one z short.
GaussNormalUnweightedQ(N, X, Y, Z, L) ==
  LET on(i)    == DLt(DZero, Z[i])
      zb(i, k) == DMul(Z[i], GaussBasis(X[i], Y[i])[k])
      Acc(F(_)) == DSum(LAMBDA i : IF on(i) THEN F(i) ELSE DZero, 0, N - 1)
  IN  [q |-> [e \in Idx(5) \X {0} |-> Acc(LAMBDA i : DMul(L[i], zb(i, e[1])))],
       b |-> [e \in Idx(5) \X Idx(5) |-> Acc(LAMBDA i : DMul(zb(i, e[1]), zb(i, e[2])))]]

\* GaussFit2D's loop: a point whose z is at most 1e-10 is skipped (the
\* inputs' z are integers, so that is z <= 0); the others add
\* zlnz * (z b[k]) to Q[k] and (z b[j]) (z b[k]) to B[5 j + k].  log(z) is
\* not rational: it is the point's input L[i], and zlnz = z * L[i].
GaussNormal(N, X, Y, Z, L) ==
  LET on(i)    == DLt(DZero, Z[i])
      zb(i, k) == DMul(Z[i], GaussBasis(X[i], Y[i])[k])
      Acc(F(_)) == DSum(LAMBDA i : IF on(i) THEN F(i) ELSE DZero, 0, N - 1)
  IN  [q |-> [e \in Idx(5) \X {0} |-> Acc(LAMBDA i : DMul(DMul(Z[i], L[i]), zb(i, e[1])))],
       b |-> [e \in Idx(5) \X Idx(5) |-> Acc(LAMBDA i : DMul(zb(i, e[1]), zb(i, e[2])))]]

\* GaussFit2D, from the solve of the normal equations: false when
\* LSLinearSolve fails or when C[3] or C[4] >= -1e-10 (>= 0 for these
\* inputs; NaN compares false and passes); else the centre, the widths as
\* sigma^2 (sqrt not taken) and A as ln A (exp not taken).
GaussFitResult(s) ==
  LET C(k) == s.x[k, 0]
      half == Frac(1, 2)
  IN  IF ~s.ok \/ DLe(DZero, C(3)) \/ DLe(DZero, C(4)) THEN [ok |-> FALSE]
      ELSE [ok  |-> TRUE,
            lnA |-> DSub(DSub(C(0), DDiv(DDiv(DMul(C(1), C(1)), C(3)), Dbl(4))),
                         DDiv(DDiv(DMul(C(2), C(2)), C(4)), Dbl(4))),
            x0  |-> DNeg(DMul(half, DDiv(C(1), C(3)))),
            y0  |-> DNeg(DMul(half, DDiv(C(2), C(4)))),
            sx2 |-> DDiv(DNeg(half), C(3)),
            sy2 |-> DDiv(DNeg(half), C(4))]

GaussFit2D(N, X, Y, Z, L) ==
  LET ne == GaussNormal(N, X, Y, Z, L) IN GaussFitResult(LSLinearSolve(5, ne.q, ne.b))

-----------------------------------------------------------------------------
(* Reference definitions, from the mathematics rather than the code.       *)

RECURSIVE Det(_, _)
\* The determinant, by Laplace expansion along row 0.
Det(n, a) ==
  IF n = 1 THEN a[0, 0]
  ELSE DSum(LAMBDA c : LET minor == [r \in Idx(n - 1), k \in Idx(n - 1) |->
                                        a[r + 1, IF k < c THEN k ELSE k + 1]]
                           sign  == IF c % 2 = 0 THEN a[0, c] ELSE DNeg(a[0, c])
                       IN  DMul(sign, Det(n - 1, minor)), 0, n - 1)

Product(n, p, a, b) ==
  [r \in Idx(n), c \in Idx(p) |-> DSum(LAMBDA k : DMul(a[r, k], b[k, c]), 0, n - 1)]
Identity(n) == [r \in Idx(n), c \in Idx(n) |-> IF r = c THEN DOne ELSE DZero]

\* The n x n matrices with entries in V.
Matrices(n, V) ==
  {[e \in Idx(n) \X Idx(n) |-> Dbl(m[e])] : m \in [Idx(n) \X Idx(n) -> V]}

\* c[1] + c[2] t + c[3] t^2 + ...
Poly(c, t) == DSum(LAMBDA k : DMul(Dbl(c[k + 1]), DProd(LAMBDA i : t, 1, k)), 0, Len(c) - 1)

\* ln of the Gaussian surface A exp(-(x-x0)^2 / 2 sx2 - (y-y0)^2 / 2 sy2).
LnGauss(g, x, y) ==
  DSub(DSub(g.lnA, DDiv(DMul(DSub(x, g.x0), DSub(x, g.x0)), DMul(Dbl(2), g.sx2))),
       DDiv(DMul(DSub(y, g.y0), DSub(y, g.y0)), DMul(Dbl(2), g.sy2)))

\* A 1-based sequence as the code's 0-based array.
Arr(s) == [i \in Idx(Len(s)) |-> s[i + 1]]
XO == Arr(Points)
\* The most knots every sequence of Knots has.
MaxKnots == Min({Len(k) : k \in Knots})
KnotArrays(n) == {Arr(SubSeq(k, 1, n)) : k \in Knots}

-----------------------------------------------------------------------------
(* Calls.  A caller invokes one routine with arguments from the small     *)
(* sets above; the values interpolated are samples of a function given by *)
(* coefficients c, kept in the call so that a property can compare.       *)

NoCall == [op |-> "none"]

\* The polynomial or bilinear function with coefficients c.
Bilin(c, u, v) == DAdd(DAdd(Dbl(c[1]), DMul(Dbl(c[2]), u)),
                       DAdd(DMul(Dbl(c[3]), v), DMul(Dbl(c[4]), DMul(u, v))))

CallMatInvert ==
  \E n \in {2, 3} : \E m \in Matrices(n, IF n = 2 THEN Entries2 ELSE Entries3) :
    call' = [op |-> "MatInvert", n |-> n, a |-> m, out |-> MatInvert(n, m)]

CallLSLinearSolve ==
  \E m \in Matrices(2, Entries2), y \in [Idx(2) \X {0} -> {-1, 1}] :
    LET Y == [e \in Idx(2) \X {0} |-> Dbl(y[e])]
    IN  call' = [op |-> "LSLinearSolve", a |-> m, y |-> Y, out |-> LSLinearSolve(2, Y, m)]

\* A product, transposed by the caller as LSFitLinear does with its design
\* matrix.
CallMatRealMult ==
  \E a, b \in Matrices(2, 0..2) :
    call' = [op |-> "MatRealMult", a |-> a, b |-> b,
             out |-> MatTrans(2, 2, MatRealMult(2, 2, 2, a, b))]

CallLagrange ==
  \E n \in 2..MaxKnots : \E XI \in KnotArrays(n), OD \in {0, 2, 3, 4, 6} :
    \E c \in [1..LagrangeOrder(n, OD) -> {-1, 1}] :
      LET YI == [i \in Idx(n) |-> Poly(c, XI[i])]
      IN  call' = [op |-> "Lagrange", n |-> n, xi |-> XI, od |-> OD, c |-> c,
                   out |-> Lagrange(n, XI, YI, OD, Len(Points), XO)]

CallBilinear ==
  \E XI, YI \in KnotArrays(2), c \in [1..4 -> {-1, 1}], x, y \in Range(Points) :
    LET ZI == [i \in 0..3 |-> Bilin(c, XI[i % 2], YI[i \div 2])]
    IN  call' = [op |-> "Bilinear", c |-> c, x |-> x, y |-> y,
                 out |-> Bilinear(XI, YI, ZI, x, y)]

CallCubicSpline ==
  \E n \in 2..MaxKnots : \E XI \in KnotArrays(n), c \in [1..3 -> {-1, 0, 1}] :
    LET YI == [i \in Idx(n) |-> Poly(c, XI[i])]
    IN  call' = [op |-> "CubicSpline", n |-> n, c |-> c,
                 out |-> CubicSpline(n, XI, YI, Len(Points), XO)]

\* spline with natural ends, then splint at every knot.
CallSpline ==
  \E n \in 3..MaxKnots : \E x \in KnotArrays(n), v \in [Idx(n) -> -1..1] :
    LET y == [i \in Idx(n) |-> Dbl(v[i])]
        c == spline(n, x, y, Natural, Natural)
    IN  call' = [op |-> "spline", n |-> n, x |-> x, y |-> y, out |-> c,
                 at |-> [i \in Idx(n) |-> splint(n, x, y, c, x[i])]]

\* spline2 over a 3 x 4 grid, then splint2 at a point.
CallSplint2 ==
  \E x1 \in KnotArrays(3), x2 \in KnotArrays(4), k \in {<<1, -1, 2, 1>>, <<0, 0, 0, 1>>} :
    \E p, q \in Range(Points) :
      LET ya  == [i \in Idx(12) |-> Bilin(k, x1[i \div 4], x2[i % 4])]
          y2a == spline2(3, 4, x1, x2, ya)
      IN  call' = [op |-> "splint2", c |-> k, x |-> p, y |-> q,
                   out |-> splint2(3, 4, x1, x2, ya, y2a, p, q)]

\* SwapEndian on an array of nelement integers of ncell bytes, laid out
\* by a host of either byte order; TestSwapEndian on that host.
\* v kept to ncell bytes (256^4 is past TLC's integers; v is below it).
Word(v, ncell) == IF ncell >= 4 THEN v ELSE v % (256 ^ ncell)
Memory(vs, ncell, little) == Arr(FlattenSeq([i \in 1..Len(vs) |-> Layout(vs[i], ncell, little)]))
CallSwapEndian ==
  \E little \in BOOLEAN, ncell \in 1..4, ne \in 0..2 :
    LET vs == [i \in 1..ne |-> Word(IF i = 1 THEN 16909060 ELSE 258, ncell)]
        a  == Memory(vs, ncell, little)
    IN  call' = [op |-> "SwapEndian", little |-> little, ncell |-> ncell, vs |-> vs,
                 in |-> a, out |-> SwapEndian(a, ne, ncell), test |-> TestSwapEndian(little)]

CallCorrelation ==
  \E n \in 1..3 : \E x, y \in [Idx(n) -> -1..1] :
    LET X == [i \in Idx(n) |-> Dbl(x[i])]  Y == [i \in Idx(n) |-> Dbl(y[i])]
    IN  call' = [op |-> "Correlation", n |-> n, x |-> X, y |-> Y, out |-> Correlation(n, X, Y)]

\* GaussFit2D on six points, the five of a cross and (1, 1), with weights z
\* that keep all of them, weigh one double, or drop some or all, and
\* ln z = c[1] + c[2] x + c[3] y + c[4] x^2 + c[5] y^2.
GaussPoints == <<<<0, 0>>, <<1, 0>>, <<-1, 0>>, <<0, 1>>, <<0, -1>>, <<1, 1>>>>
GaussWeights == {<<1, 1, 1, 1, 1, 1>>, <<2, 1, 1, 1, 1, 1>>, <<1, 1, 1, 1, 1, 0>>,
                 <<1, 1, 1, 0, 1, 1>>, <<1, 1, 1, -1, -1, 1>>, <<0, 0, 0, 0, 0, 0>>}
CallGaussFit2D ==
  \E w \in GaussWeights, c \in [1..5 -> {-1, 1}] :
    LET X == [i \in Idx(6) |-> Dbl(GaussPoints[i + 1][1])]
        Y == [i \in Idx(6) |-> Dbl(GaussPoints[i + 1][2])]
        Z == [i \in Idx(6) |-> Dbl(w[i + 1])]
        L == [i \in Idx(6) |-> DSum(LAMBDA k : DMul(Dbl(c[k + 1]), GaussBasis(X[i], Y[i])[k]), 0, 4)]
    IN  call' = [op |-> "GaussFit2D", x |-> X, y |-> Y, z |-> Z, l |-> L, c |-> c,
                 out |-> GaussFit2D(6, X, Y, Z, L)]

\* The call returns; the caller may make another.
Return == call # NoCall /\ call' = NoCall

AMathInit == call = NoCall
AMathNext ==
  \/ /\ call = NoCall
     /\ \/ CallMatInvert \/ CallLSLinearSolve \/ CallMatRealMult
        \/ CallLagrange \/ CallBilinear \/ CallCubicSpline
        \/ CallSpline \/ CallSplint2
        \/ CallSwapEndian \/ CallCorrelation \/ CallGaussFit2D
  \/ Return

-----------------------------------------------------------------------------
(* Properties of each call.                                                *)

\* MatInvert's singularity test and its LU inversion with partial pivoting:
\* -1 only for a singular matrix; 0 with the inverse for every invertible
\* one.  The one singular matrix the test lets through is one whose first
\* column is zero: at j = 0 the running maximum tq is still 0, so
\* "s < zr * tq" cannot fire, and the pivot 1/0 spreads inf and NaN.
InverseSound ==
  call.op = "MatInvert" =>
    LET n == call.n  m == call.a  r == call.out
    IN  /\ r.rc = -1 => Det(n, m) = DZero
        /\ r.rc = 0 /\ Det(n, m) # DZero => Product(n, n, m, r.a) = Identity(n)
        /\ r.rc = 0 /\ Det(n, m) = DZero => \A i \in Idx(n) : m[i, 0] = DZero

\* Lagrange interpolates every point, inside the knots or beyond them,
\* from a window of exactly the clamped order of knots that lies within
\* XI, and so reproduces every polynomial of lower degree; Bilinear
\* reproduces every function a + b x + c y + d x y.
InterpolationExact ==
  /\ call.op = "Lagrange" =>
       LET n == call.n  od == LagrangeOrder(n, call.od)
       IN  /\ \A k \in DOMAIN XO :
                LET w == LagrangeWindow(n, call.xi, od, XO[k])
                IN  0 <= w.si /\ w.ei <= n - 1 /\ w.ei - w.si + 1 = od
           /\ call.out = [k \in DOMAIN XO |-> Poly(call.c, XO[k])]
  /\ call.op = "Bilinear" => call.out = Bilin(call.c, call.x, call.y)

\* CubicSpline's end conditions hold the second derivative equal on the
\* first two and on the last two knots, so from three knots on it
\* reproduces every quadratic, between the knots and beyond them.  With two
\* knots the two end rows are the same equation: t = B[1] - A[1] * C[0] is
\* 0 and every result is inf or NaN.
SplineExact ==
  call.op = "CubicSpline" =>
    IF call.n = 2 THEN \A k \in DOMAIN call.out : call.out[k] = NonFinite
    ELSE call.out = [k \in DOMAIN XO |-> Poly(call.c, XO[k])]

\* spline with natural ends returns the second derivatives of the natural
\* cubic spline: zero at both ends, and at each inner knot the continuity
\* equation h[i-1] c[i-1] + 2 (h[i-1] + h[i]) c[i] + h[i] c[i+1] =
\* 6 (slope[i] - slope[i-1]); splint of them returns every knot's value;
\* spline2 and splint2 reproduce a + b x1 + c x2 + d x1 x2 on the grid and
\* beyond it.
NaturalSplineSound ==
  /\ call.op = "spline" =>
       LET n == call.n  x == call.x  y == call.y  c == call.out
           h(i)  == DSub(x[i + 1], x[i])
           sl(i) == DDiv(DSub(y[i + 1], y[i]), h(i))
       IN  /\ c[0] = DZero /\ c[n - 1] = DZero
           /\ \A i \in 1..(n - 2) :
                DAdd(DAdd(DMul(h(i - 1), c[i - 1]), DMul(Dbl(2), DMul(DAdd(h(i - 1), h(i)), c[i]))),
                     DMul(h(i), c[i + 1])) = DMul(Dbl(6), DSub(sl(i), sl(i - 1)))
           /\ \A i \in Idx(n) : call.at[i] = [ok |-> TRUE, yo |-> y[i]]
  /\ call.op = "splint2" =>
       call.out = [ok |-> TRUE, yo |-> Bilin(call.c, call.x, call.y)]

\* SwapEndian turns an array of ncell-byte integers laid out by this host
\* into the layout of the other byte order, for every even ncell and
\* either host, TestSwapEndian telling which host it is; an odd ncell (a
\* byte, or a packed 3-byte integer) is left as it was, silently.
ByteOrderSound ==
  call.op = "SwapEndian" =>
    /\ call.test = call.little
    /\ call.out = IF call.ncell % 2 = 0 THEN Memory(call.vs, call.ncell, ~call.little)
                  ELSE call.in

\* GaussFit2D recovers every Gaussian surface exactly from the points it
\* keeps (z > 1e-10), whatever their weights, when they determine the five
\* coefficients, and refuses when they do not or when the surface is not a
\* peak in both directions.  Inputs that keep no point at all are outside
\* this statement: see README.md on what the code does with them.
GaussFitSound ==
  call.op = "GaussFit2D" =>
    LET r    == call.out
        kept == {i \in Idx(6) : DLt(DZero, call.z[i])}
        gram == [e \in Idx(5) \X Idx(5) |->
                   DSum(LAMBDA i : IF i \in kept
                                     THEN DMul(GaussBasis(call.x[i], call.y[i])[e[1]],
                                               GaussBasis(call.x[i], call.y[i])[e[2]])
                                     ELSE DZero, 0, 5)]
    IN  kept # {} =>
        CASE Det(5, gram) = DZero \/ call.c[4] > 0 \/ call.c[5] > 0 -> ~r.ok
          [] OTHER ->
               /\ r.ok /\ DLt(DZero, r.sx2) /\ DLt(DZero, r.sy2)
               /\ \A i \in Idx(6) : LnGauss(r, call.x[i], call.y[i]) = call.l[i]
=============================================================================
