-------------------------- MODULE IntegerRecurrence --------------------------
(***************************************************************************)
(* find_smallest_integer_recurrence: the orders are tried in turn; for     *)
(* each, the Hankel system of the sequence is solved exactly by            *)
(* Gauss-Jordan elimination (_solve_exact_unique_linear_system), and the   *)
(* first unique integral solution is taken.  An action is one column of    *)
(* the elimination, or the decision about an order.                        *)
(***************************************************************************)
EXTENDS Rationals

CONSTANT MaxOrder

ASSUME MaxOrderAssumption == MaxOrder \in Nat

VARIABLES
  searching,
  order,
  rows,       \* the augmented matrix
  pivots,     \* pivot_cols: pivots[r] is the column of pivot row r
  col,        \* the column to eliminate next
  found       \* the coefficients, <<>> for None

searchVars == <<searching, order, rows, pivots, col, found>>

(* Slip: the last equation is left out.                                    *)
HankelSystemShort(s, L) ==
  [k \in 1 .. Len(s) - L - 1 |->
     [i \in 1 .. L + 1 |-> Whole(IF i <= L THEN s[L + k - i] ELSE s[L + k])]]

\* Row k says that term L + k is the combination of the L terms before it.
HankelSystem(s, L) ==
  [k \in 1 .. Len(s) - L |->
     [i \in 1 .. L + 1 |-> Whole(IF i <= L THEN s[L + k - i] ELSE s[L + k])]]

Cap(s) == IF MaxOrder < Len(s) \div 2 THEN MaxOrder ELSE Len(s) \div 2

SearchInit(s) ==
  /\ searching = (Cap(s) > 0)
  /\ order = 1
  /\ rows = IF Cap(s) > 0 THEN HankelSystem(s, 1) ELSE <<>>
  /\ pivots = <<>>
  /\ col = 1
  /\ found = <<>>

Rank == Len(pivots)

\* The rows that can serve as the pivot row of the column.
Usable == { k \in Rank + 1 .. Len(rows) : rows[k][col] # Zero }

Swapped(first) ==
  [rows EXCEPT ![Rank + 1] = rows[first], ![first] = rows[Rank + 1]]

(* Slip: only the rows below the pivot row are reduced.                    *)
BelowOnly(k) == k > Rank + 1

Reduced(k) == k # Rank + 1

\* The first usable row becomes the pivot row, scaled to 1, and its multiples
\* are subtracted from the other rows.
Pivot ==
  /\ searching
  /\ col <= order
  /\ \E first \in Usable :
       /\ \A k \in Usable : first <= k
       /\ LET m      == Swapped(first)
              scaled == [j \in 1 .. order + 1 |->
                           Divide(m[Rank + 1][j], m[Rank + 1][col])]
          IN  rows' = [k \in DOMAIN m |->
                         IF k = Rank + 1 THEN scaled
                         ELSE IF Reduced(k)
                         THEN [j \in 1 .. order + 1 |->
                                 Plus(m[k][j],
                                      Minus(Times(m[k][col], scaled[j])))]
                         ELSE m[k]]
  /\ pivots' = Append(pivots, col)
  /\ col' = col + 1
  /\ UNCHANGED <<searching, order, found>>

SkipColumn ==
  /\ searching
  /\ col <= order
  /\ Usable = {}
  /\ col' = col + 1
  /\ UNCHANGED <<searching, order, rows, pivots, found>>

Inconsistent ==
  \E k \in Rank + 1 .. Len(rows) :
    /\ rows[k][order + 1] # Zero
    /\ \A j \in 1 .. order : rows[k][j] = Zero

Unique == ~ Inconsistent /\ Rank = order

Solution == [r \in 1 .. order |-> rows[r][order + 1]]

IntegralSolution == Unique /\ \A r \in 1 .. order : Integral(Solution[r])

Accept ==
  /\ searching
  /\ col > order
  /\ IntegralSolution
  /\ found' = Solution
  /\ searching' = FALSE
  /\ UNCHANGED <<order, rows, pivots, col>>

TryNextOrder(s) ==
  /\ searching
  /\ col > order
  /\ ~ IntegralSolution
  /\ order < Cap(s)
  /\ order' = order + 1
  /\ rows' = HankelSystem(s, order + 1)
  /\ pivots' = <<>>
  /\ col' = 1
  /\ UNCHANGED <<searching, found>>

Exhausted(s) ==
  /\ searching
  /\ col > order
  /\ ~ IntegralSolution
  /\ order = Cap(s)
  /\ searching' = FALSE
  /\ UNCHANGED <<order, rows, pivots, col, found>>

SearchNext(s) ==
  Pivot \/ SkipColumn \/ Accept \/ TryNextOrder(s) \/ Exhausted(s)

-----------------------------------------------------------------------------
(* Properties *)

\* The columns passed are in reduced echelon form: a pivot's column is zero
\* but for the 1 in its row, and a column without one is zero from the
\* next pivot row on.  This is why the solution can be read off the last
\* column when every column has a pivot.
ReducedEchelon ==
  /\ Rank <= Len(rows)
  /\ \A p, r \in 1 .. Rank : p < r => pivots[p] < pivots[r]
  /\ \A r \in 1 .. Rank, k \in 1 .. Len(rows) :
       rows[k][pivots[r]] = IF k = r THEN One ELSE Zero
  /\ \A j \in 1 .. col - 1, k \in Rank + 1 .. Len(rows) : rows[k][j] = Zero
=============================================================================
