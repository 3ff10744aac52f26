---------------------------- MODULE TestPrograms ----------------------------
(***************************************************************************)
(* The algorithms of the test programs, on small inputs: sorting,          *)
(* searching, the priority queue, the knight's tour, products of matrices, *)
(* and the fourier transform.  A program is the data its main sets up,     *)
(* chosen at the start, and one step: the call that main makes.            *)
(*                                                                         *)
(* An array is a function from its indices; the arrays that are sorted     *)
(* have Size cells, and input holds the cell behind them as well, for the  *)
(* program that reaches it.  int is a signed number of WIDTH bits that     *)
(* wraps around.                                                           *)
(***************************************************************************)
EXTENDS Integers, Sequences, FiniteSets, Folds, Functions, SequencesExt

CONSTANTS
  Values,     \* numbers that are sorted and searched for
  Entries,    \* numbers in matrices and vectors
  Size,       \* elements of an array that is sorted
  Priorities, \* lists of priorities pushed
  Boards,     \* side lengths of the chess board
  Factors,    \* numbers multiplied by the fourier transform
  WIDTH

ProgramAssumption ==
  /\ Values \subseteq Int /\ Entries \subseteq Int /\ Size \in Nat \ {0} /\ Boards \subseteq Nat \ {0}
  /\ Factors \subseteq 0..255 /\ WIDTH \in Nat \ {0}

VARIABLES prog, input, output
vars == <<prog, input, output>>

int(x) == ((x + 2^(WIDTH - 1)) % 2^WIDTH) - 2^(WIDTH - 1)

Up(a, b) == [n \in 1..(b - a + 1) |-> a + n - 1]
swap(arr, i, j) == [arr EXCEPT ![i] = arr[j], ![j] = arr[i]]

-----------------------------------------------------------------------------
(* Sorting. *)

\* insertionsort.c: the first of the smallest of the rest goes to the front.
insertion(arr, size) ==
  LET FirstMin(a, i) == CHOOSE m \in i..(size - 1) : /\ \A j \in i..(size - 1) : a[m] <= a[j]
                                                     /\ \A j \in i..(m - 1) : a[m] < a[j]
  IN  FoldLeft(LAMBDA a, i : swap(a, i, FirstMin(a, i)), arr, Up(0, size - 2))

\* sort_search.c
bubble(arr, size) ==
  FoldLeft(LAMBDA a, i :
             FoldLeft(LAMBDA b, j : IF b[j] < b[i] THEN swap(b, i, j) ELSE b, a, Up(i + 1, size - 1)),
           arr, Up(0, size - 2))

\* quicksort.c
partition(arr, low, high) ==
  LET s == FoldLeft(LAMBDA t, j : IF t.a[j] <= arr[high] THEN [a |-> swap(t.a, t.i + 1, j), i |-> t.i + 1] ELSE t,
                    [a |-> arr, i |-> low - 1], Up(low, high - 1))
  IN  [a |-> swap(s.a, s.i + 1, high), pi |-> s.i + 1]

RECURSIVE quickSort(_, _, _)
quickSort(arr, low, high) ==
  IF low >= high THEN arr
  ELSE LET p == partition(arr, low, high)
       IN  quickSort(quickSort(p.a, low, p.pi - 1), p.pi + 1, high)

\* mergesort.c: cell k gets the smaller of the heads of the two copies, or what
\* is left of one of them.
merge(arr, l, m, r) ==
  LET step == FoldLeft(LAMBDA s, k :
                         IF s.i <= m /\ (s.j > r \/ arr[s.i] <= arr[s.j])
                         THEN [s EXCEPT !.a[k] = arr[s.i], !.i = @ + 1]
                         ELSE [s EXCEPT !.a[k] = arr[s.j], !.j = @ + 1],
                       [a |-> arr, i |-> l, j |-> m + 1], Up(l, r))
  IN  step.a

RECURSIVE mergeSort(_, _, _)

\* Mutant: the first half without its last cell.
mergeSort_MissesMiddle(arr, l, r) ==
  IF l >= r THEN arr
  ELSE LET m == l + ((r - l) \div 2)
       IN  merge(mergeSort(mergeSort(arr, l, m - 1), m + 1, r), l, m, r)

mergeSort(arr, l, r) ==
  IF l >= r THEN arr
  ELSE LET m == l + ((r - l) \div 2)
       IN  merge(mergeSort(mergeSort(arr, l, m), m + 1, r), l, m, r)

\* graph.c: bubbleSort of a list; last is the element in front of lptr.
RECURSIVE bubbleSort(_, _)
bubbleSort(arr, last) ==
  LET s == FoldLeft(LAMBDA t, i : IF t.a[i] > t.a[i + 1] THEN [a |-> swap(t.a, i, i + 1), swapped |-> TRUE] ELSE t,
                    [a |-> arr, swapped |-> FALSE], Up(0, last - 1))
  IN  IF s.swapped THEN bubbleSort(s.a, last - 1) ELSE s.a

-----------------------------------------------------------------------------
(* Searching, the priority queue and the knight's tour.                    *)

\* sort_search.c
RECURSIVE binarySearch(_, _, _, _)
binarySearch(arr, l, r, x) ==
  IF r < l THEN -1
  ELSE LET mid == l + ((r - l) \div 2)
       IN  CASE arr[mid] = x -> mid
             [] arr[mid] > x -> binarySearch(arr, l, mid - 1, x)
             [] OTHER        -> binarySearch(arr, mid + 1, r, x)

\* priority_queue.c: in front of the head if that is worse, else behind the
\* head and those that are better.  An empty list has no head to look at.
push(list, node) ==
  IF list[1].priority > node.priority THEN <<node>> \o list
  ELSE LET better == {n \in 1..Len(list) : n = 1 \/ \A m \in 2..n : list[m].priority < node.priority}
           start == CHOOSE n \in better : \A m \in better : m <= n
       IN  SubSeq(list, 1, start) \o <<node>> \o SubSeq(list, start + 1, Len(list))

\* What a list that starts with one node and is pushed to gives back.
Popped(priorities) ==
  LET nodes == [n \in DOMAIN priorities |-> [data |-> n, priority |-> priorities[n]]]
  IN  FoldLeft(LAMBDA list, node : push(list, node), <<Head(nodes)>>, Tail(nodes))

xMove == <<2, 1, -1, -2, -2, -1, 1, 2>>
yMove == <<1, 2, 2, 1, -1, -2, -2, -1>>
Moves == {<<xMove[k], yMove[k]>> : k \in 1..8}

isSafe(p, sol) == p \in DOMAIN sol /\ sol[p] = -1

\* backtrack.c: from square p, moves k and later; the board and whether the tour
\* was completed.
RECURSIVE solveKTUtil(_, _, _, _)
solveKTUtil(p, k, movei, sol) ==
  LET q == <<p[1] + xMove[k], p[2] + yMove[k]>>
      t == solveKTUtil(q, 1, movei + 1, [sol EXCEPT ![q] = movei])
  IN  IF movei = Cardinality(DOMAIN sol) THEN [found |-> TRUE, sol |-> sol]
      ELSE IF k > 8 THEN [found |-> FALSE, sol |-> sol]
      ELSE IF ~isSafe(q, sol) THEN solveKTUtil(p, k + 1, movei, sol)
      ELSE IF t.found THEN t
      ELSE solveKTUtil(p, k + 1, movei, [t.sol EXCEPT ![q] = -1])

solveKT(n) ==
  solveKTUtil(<<0, 0>>, 1, 1, [p \in (0..(n - 1)) \X (0..(n - 1)) |-> IF p = <<0, 0>> THEN 0 ELSE -1])

-----------------------------------------------------------------------------
(* Products.  A matrix is a function from pairs of indices.                *)

Matrices(n) == [(0..(n - 1)) \X (0..(n - 1)) -> Entries]
SumOver(n, Term(_)) == FoldLeft(LAMBDA s, k : int(s + Term(k)), 0, Up(0, n - 1))

\* matrix_mult_rec.c: the indices are static, so the calls share them and go on
\* counting rows on the way back.
RECURSIVE multiplyMatrixRec(_, _, _, _)
multiplyMatrixRec(n, A, B, s) ==
  IF s.i >= n THEN s
  ELSE LET Call(t) == multiplyMatrixRec(n, A, B, t)
           cell == IF s.j < n /\ s.k < n
                   THEN Call([s EXCEPT !.C[<<s.i, s.j>>] = int(@ + A[<<s.i, s.k>>] * B[<<s.k, s.j>>]), !.k = @ + 1])
                   ELSE s
           column == IF s.j < n THEN Call([cell EXCEPT !.k = 0, !.j = @ + 1]) ELSE s
       IN  Call([column EXCEPT !.j = 0, !.i = @ + 1])

multiplyMatrix(n, A, B) ==
  multiplyMatrixRec(n, A, B, [i |-> 0, j |-> 0, k |-> 0, C |-> [p \in DOMAIN A |-> 0]]).C

\* outer_product.c: n outer products of a column and a row, then their sum.
outer_kernel(n, A, B) ==
  LET partial == [q \in (0..(n - 1)) \X DOMAIN A |-> int(A[<<q[2][1], q[1]>>] * B[<<q[1], q[2][2]>>])]
  IN  [p \in DOMAIN A |-> SumOver(n, LAMBDA k : partial[<<k, p>>])]

\* fc_forward.c
fc_kernel(n, x, W, b) == int(SumOver(n, LAMBDA i : int(x[i] * W[i])) + b)

-----------------------------------------------------------------------------
(* dft.c: products of bytes by a fourier transform modulo 17.  % is what   *)
(* modulo_m computes by adding and subtracting m.                          *)

modulo_m(x) == x % 17

RECURSIVE dft(_, _, _)
dft(a, len, root) ==
  IF root = 1 THEN a
  ELSE LET half == len \div 2
           Part(odd) == dft([i \in 0..(half - 1) |-> a[2 * i + odd]], half, modulo_m(root * root))
           x == Part(0)
           y == Part(1)
           base == [i \in 0..(half - 1) |-> modulo_m(root^i)]
       IN  [i \in 0..(len - 1) |-> IF i < half THEN modulo_m(x[i] + base[i] * y[i])
                                   ELSE modulo_m(x[i - half] - base[i - half] * y[i - half])]

to_poly(x) == [i \in 0..7 |-> (x \div 2^i) % 2]

mult(x, y) ==
  LET a == dft(to_poly(x), 8, 2)
      b == dft(to_poly(y), 8, 2)
      c == dft([i \in 0..7 |-> modulo_m(a[i] * b[i])], 8, 9)
  IN  FoldLeft(LAMBDA s, i : modulo_m(s + modulo_m(2^i) * modulo_m(c[i] * 15)), 0, Up(0, 7))

-----------------------------------------------------------------------------
Sorts == {"insertionsort.c", "sort_search.c", "quicksort.c", "mergesort.c", "graph.c"}

Init ==
  /\ output = <<>>
  /\ \/ prog \in Sorts /\ input \in [0..Size -> Values]
     \/ prog = "priority_queue.c" /\ input \in Priorities
     \/ prog = "backtrack.c" /\ input \in Boards
     \/ prog \in {"matrix_mult_rec.c", "outer_product.c"} /\ input \in [A : Matrices(2), B : Matrices(2)]
     \/ prog = "fc_forward.c" /\ input \in [x : [0..1 -> Entries], W : [0..1 -> Entries], b : Entries]
     \/ prog = "dft.c" /\ input \in Factors \X Factors

Returns(file, x) == prog = file /\ output = <<>> /\ output' = <<x>> /\ UNCHANGED <<prog, input>>

InsertionSort == Returns("insertionsort.c", insertion(input, Size))
QuickSort == Returns("quicksort.c", quickSort(input, 0, Size - 1))

\* The array is sorted and then searched, for numbers that are in it and others.
SortSearch ==
  LET arr == bubble(input, Size)
  IN  Returns("sort_search.c", [arr |-> arr, found |-> [x \in Values |-> binarySearch(arr, 0, Size - 1, x)]])

\* data has the elements 0 to 22 and the call says 0 to 23.
MergeSort == Returns("mergesort.c", mergeSort(input, 0, Size))

\* Every number is inserted in front of the list, and the list is sorted.
LinkList == Returns("graph.c", bubbleSort([i \in 0..(Size - 1) |-> input[Size - 1 - i]], Size - 1))

PriorityQueue == Returns("priority_queue.c", Popped(input))
KnightsTour == Returns("backtrack.c", solveKT(input))
MatrixProduct == Returns("matrix_mult_rec.c", multiplyMatrix(2, input.A, input.B))
OuterProduct == Returns("outer_product.c", outer_kernel(2, input.A, input.B))
FullyConnected == Returns("fc_forward.c", fc_kernel(2, input.x, input.W, input.b))
Transform == Returns("dft.c", mult(input[1], input[2]))

Next ==
  \/ InsertionSort \/ SortSearch \/ QuickSort \/ MergeSort \/ LinkList \/ PriorityQueue
  \/ KnightsTour \/ MatrixProduct \/ OuterProduct \/ FullyConnected \/ Transform

Spec == Init /\ [][Next]_vars

-----------------------------------------------------------------------------
(* Properties. *)

Finished(files) == output # <<>> /\ prog \in files
Result == output[1]
Count(arr, x, high) == Cardinality({i \in 0..high : arr[i] = x})

\* Cells 0 to high hold the numbers of input in order, equal ones included.
SortedTo(arr, high) ==
  /\ \A i, j \in 0..high : i < j => arr[i] <= arr[j]
  /\ \A x \in Values : Count(arr, x, high) = Count(input, x, high)

\* The sorts of four programs put their array in order and leave the cell
\* behind it alone.  That of mergesort.c sorts the cell behind the array with
\* it, as its call says: whatever lies there ends up among the data, and the
\* largest number ends up behind them.
SortsSort ==
  /\ Finished({"insertionsort.c", "quicksort.c"}) => SortedTo(Result, Size - 1) /\ Result[Size] = input[Size]
  /\ Finished({"sort_search.c"}) => SortedTo(Result.arr, Size - 1) /\ Result.arr[Size] = input[Size]
  /\ Finished({"mergesort.c"}) => SortedTo(Result, Size)
  /\ Finished({"graph.c"}) => SortedTo(Result, Size - 1)

IsProduct(C) ==
  \A i, j \in 0..1 :
    C[<<i, j>>] = int(input.A[<<i, 0>>] * input.B[<<0, j>>] + input.A[<<i, 1>>] * input.B[<<1, j>>])

\* The other programs compute what they are for: a search finds the value if
\* it is in the array; the queue gives back everything, best first; a tour visits
\* every square once, and a board given up has a square no move leads to; both
\* products are the product, although the recursion goes on after the last
\* row; the layer is a scalar product; and the transform multiplies modulo 17.
AnswersRight ==
  /\ Finished({"sort_search.c"}) =>
       \A x \in Values : LET n == Result.found[x]
                         IN  IF n = -1 THEN Count(input, x, Size - 1) = 0
                             ELSE n \in 0..(Size - 1) /\ Result.arr[n] = x
  /\ Finished({"priority_queue.c"}) =>
       /\ \A m, n \in DOMAIN Result : m < n => Result[m].priority <= Result[n].priority
       /\ Len(Result) = Len(input)
       /\ \A n \in DOMAIN input : \E m \in DOMAIN Result : Result[m] = [data |-> n, priority |-> input[n]]
  /\ Finished({"backtrack.c"}) =>
       LET sol == Result.sol
           Jump(p, q) == <<q[1] - p[1], q[2] - p[2]>> \in Moves
       IN  IF Result.found
           THEN /\ Range(sol) = 0..(input * input - 1) /\ sol[<<0, 0>>] = 0
                /\ \A p, q \in DOMAIN sol : sol[q] = sol[p] + 1 => Jump(p, q)
           ELSE /\ \A p \in DOMAIN sol : sol[p] = IF p = <<0, 0>> THEN 0 ELSE -1
                /\ \E q \in DOMAIN sol : \A p \in DOMAIN sol : ~Jump(p, q)
  /\ Finished({"matrix_mult_rec.c", "outer_product.c"}) => IsProduct(Result)
  /\ Finished({"fc_forward.c"}) =>
       Result = int(input.x[0] * input.W[0] + input.x[1] * input.W[1] + input.b)
  /\ Finished({"dft.c"}) => Result = (input[1] * input[2]) % 17
=============================================================================
