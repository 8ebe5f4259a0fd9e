-------------------------------- MODULE Sort --------------------------------
(***************************************************************************)
(* Section1/L1, and the same functions in Practice/L1: reads numbers,      *)
(* sorts them by merging and prints their median and their mean, of which  *)
(* the model has the sum.  Arrays are functions on 0 .. size - 1.          *)
(***************************************************************************)
EXTENDS Integers, FiniteSets, Functions, Course

CONSTANTS
    INT_MAX,        \* the largest int: int arithmetic is modulo 2 * (INT_MAX + 1)
    Numbers         \* arrays that may be read, of one element or more

INT == -(INT_MAX + 1) .. INT_MAX

Size(arr) == Cardinality(DOMAIN arr)

ASSUME SortAssumption ==
    /\ INT_MAX \in Nat
    /\ \A arr \in Numbers :
          IsFiniteSet(DOMAIN arr) /\ Size(arr) # 0 /\ arr \in [0 .. Size(arr) - 1 -> INT]

VARIABLES
    entered,        \* the numbers as they were read
    numbers_array,
    median2,        \* twice the median
    media,          \* the sum of the numbers
    sort_pc

sortVars == <<entered, numbers_array, median2, media, sort_pc>>

SortTypeOK ==
    /\ \A i \in DOMAIN numbers_array : numbers_array[i] \in INT
    /\ DOMAIN numbers_array = DOMAIN entered
    /\ sort_pc \in {"read", "sort", "median", "mean", "exit"}

SortInit ==
    /\ entered = <<>> /\ numbers_array = <<>>
    /\ median2 = 0 /\ media = 0
    /\ sort_pc = "read"

\* Mutant of TakeLeft: the right half runs out one element too early.
TakeLeftLonger(arr, i, mid, j, right) == i <= mid /\ (j >= right \/ arr[i] <= arr[j])

\* Whether the next element comes from the left half, arr[i], or the right one, arr[j].
TakeLeft(arr, i, mid, j, right) == i <= mid /\ (j > right \/ arr[i] <= arr[j])

\* Merge: the halves left .. mid and mid + 1 .. right, from their copies L and R.
Merge(arr, left, mid, right) ==
    LET taken[k \in left .. right + 1] ==      \* elements of L among the first k - left
            IF k = left THEN 0
            ELSE LET i == left + taken[k - 1]
                     j == mid + 1 + (k - 1 - left - taken[k - 1])
                 IN  IF TakeLeft(arr, i, mid, j, right) THEN taken[k - 1] + 1 ELSE taken[k - 1]
    IN  [k \in DOMAIN arr |->
            IF k \notin left .. right THEN arr[k]
            ELSE IF taken[k + 1] > taken[k] THEN arr[left + taken[k]]
                 ELSE arr[mid + 1 + (k - left - taken[k])]]

\* MergeSort: a call sorts left .. right of the array that it is given.
MergeSort(arr, left, right) ==
    LET Calls == [arr : [DOMAIN arr -> INT], left : DOMAIN arr, right : DOMAIN arr]
        sort[call \in Calls] ==
            IF call.left < call.right
            THEN LET mid == call.left + (call.right - call.left) \div 2
                     half == sort[[call EXCEPT !.right = mid]]
                     halves == sort[[call EXCEPT !.arr = half, !.left = mid + 1]]
                 IN  Merge(halves, call.left, mid, call.right)
            ELSE call.arr
    IN  sort[[arr |-> arr, left |-> left, right |-> right]]

\* The value of an int expression that may overflow, as the machine wraps it.
Wrap(n) == ((n + INT_MAX + 1) % (2 * (INT_MAX + 1))) - (INT_MAX + 1)

\* Mutant of TwiceMedian: the element in the middle, whatever the size.
TwiceMedianOdd(arr, size) == 2 * arr[size \div 2]

\* CalculateMedian: the sum of two elements is an int, divided by 2.0.
TwiceMedian(arr, size) ==
    LET middle == size \div 2 IN
    IF size % 2 = 0 THEN Wrap(arr[middle - 1] + arr[middle]) ELSE 2 * arr[middle]

-----------------------------------------------------------------------------
(* main() *)

ReadNumbers ==
    /\ sort_pc = "read"
    /\ entered' \in Numbers /\ numbers_array' = entered'
    /\ sort_pc' = "sort"
    /\ UNCHANGED <<median2, media>>

SortArray ==
    /\ sort_pc = "sort"
    /\ numbers_array' = MergeSort(numbers_array, 0, Size(numbers_array) - 1)
    /\ sort_pc' = "median"
    /\ UNCHANGED <<entered, median2, media>>

CalculateMedian ==
    /\ sort_pc = "median"
    /\ median2' = TwiceMedian(numbers_array, Size(numbers_array))
    /\ sort_pc' = "mean"
    /\ UNCHANGED <<entered, numbers_array, media>>

\* A double holds the sum of ints exactly.
CalculateMean ==
    /\ sort_pc = "mean"
    /\ media' = SumFunction(numbers_array)
    /\ sort_pc' = "exit"
    /\ UNCHANGED <<entered, numbers_array, median2>>

SortNext ==
    /\ program = "sort"
    /\ ReadNumbers \/ SortArray \/ CalculateMedian \/ CalculateMean

SortSpec == SortInit /\ CourseTypeOK /\ [][SortNext /\ UNCHANGED courseVars]_<<sortVars, courseVars>>

-----------------------------------------------------------------------------
(* Properties *)

Copies(arr, x) == Cardinality({i \in DOMAIN arr : arr[i] = x})
Below(arr, x) == Cardinality({i \in DOMAIN arr : arr[i] < x})
AtMost(arr, x) == Cardinality({i \in DOMAIN arr : arr[i] <= x})

KthSmallest(arr, k) ==
    CHOOSE x \in {arr[i] : i \in DOMAIN arr} : Below(arr, x) < k /\ k <= AtMost(arr, x)

\* The array becomes an ascending permutation of what was read (functions.c:6-54);
\* the median is the middle one of the numbers read, or halfway between the two in
\* the middle, if no sum of two numbers overflows an int (functions.c:63); and the
\* mean is that of what was read.
SortedPermutation ==
    /\ sort_pc \notin {"read", "sort"} =>
        /\ \A i, j \in DOMAIN numbers_array : i < j => numbers_array[i] <= numbers_array[j]
        /\ \A x \in INT : Copies(numbers_array, x) = Copies(entered, x)
    /\ sort_pc = "exit" =>
        /\ (\A i \in DOMAIN entered : 2 * entered[i] \in INT) =>
              median2 = KthSmallest(entered, (Size(entered) + 1) \div 2) + KthSmallest(entered, Size(entered) \div 2 + 1)
        /\ media = SumFunction(entered)
=============================================================================
