------------------------- MODULE LaunchArgs_proofs -------------------------
(***************************************************************************)
(* Proofs about the launcher's host check, for every value of the bounds.  *)
(* is_hostname_valid never turns down a name the specification's rule      *)
(* accepts, whatever the host list or host file held: the label regex     *)
(* matches every label the rule allows, and the length check and the       *)
(* trailing-dot strip agree with the rule.                                 *)
(***************************************************************************)
EXTENDS LaunchArgs, TLAPS

\* Every label the rule accepts matches the label regex, its whole length
\* being a witness for the {1,63} repetition.
LEMMA LabelComplete ==
    ASSUME NEW x, SpecLabel(x)
    PROVE  LabelOK(x)
<1>0. LabelMax \in Nat
  BY LaunchAssumptions
<1>1. /\ x \in Seq(LDH) /\ 1 <= Len(x) /\ Len(x) <= LabelMax
      /\ x[1] # "-" /\ x[Len(x)] # "-"
  BY DEF SpecLabel, Last
<1>2. \A k \in 1..Len(x) : x[k] \in LDH
  BY <1>1
<1>3. Len(x) \in 1..LabelMax /\ Len(x) <= Len(x)
  BY <1>0, <1>1
<1>4. /\ Len(x) \in 1..LabelMax /\ Len(x) <= Len(x) /\ x[1] # "-"
      /\ \A k \in 1..Len(x) : x[k] \in LDH
      /\ x[Len(x)] # "-"
      /\ Len(x) = Len(x) \/ (Len(x) = Len(x) - 1 /\ x[Len(x)] = "NL")
  BY <1>1, <1>2, <1>3
<1> QED
  BY <1>4 DEF LabelOK

\* Every name the rule accepts is valid for is_hostname_valid.
LEMMA HostnameComplete ==
    ASSUME NEW h, SpecHostname(h)
    PROVE  IsHostnameValid(h) = "valid"
<1> DEFINE b == IF Last(h) = "." THEN Front(h) ELSE h
<1>1. h \in Seq(LDH \cup {"."}) /\ h # <<>> /\ Len(h) <= NameMax
  BY DEF SpecHostname
<1>0. NameMax \in Nat
  BY LaunchAssumptions
<1>2. ~(Len(h) > NameMax)
  BY <1>0, <1>1
<1>3. \A l \in Range(SplitAt(b, ".")) : LabelOK(l)
  <2>1. \A l \in Range(SplitAt(b, ".")) : SpecLabel(l)
    BY DEF SpecHostname
  <2> QED
    BY <2>1, LabelComplete
<1>4. (IF \A l \in Range(SplitAt(b, ".")) : LabelOK(l) THEN "valid" ELSE "invalid") = "valid"
  BY <1>3
<1> QED
  BY <1>1, <1>2, <1>4 DEF IsHostnameValid

(***************************************************************************)
(* The inductive invariant: a result is set only when the front end is     *)
(* done, after which nothing changes, and a ValueError names a host that   *)
(* is_hostname_valid found invalid.                                        *)
(***************************************************************************)
IInv ==
    /\ result \in Results
    /\ result # "none" => phase = "done"
    /\ result = "ValueError" => IsHostnameValid(hosts[i]) = "invalid"

LEMMA InitIInv == Init => IInv
BY DEF Init, IInv, Results

LEMMA NextIInv == IInv /\ [Next]_vars => IInv'
<1> SUFFICES ASSUME IInv, [Next]_vars PROVE IInv'
  OBVIOUS
<1>1. CASE GetArgs
  BY <1>1 DEF GetArgs, IInv
<1>2. CASE ParseHostsStart
  BY <1>2 DEF ParseHostsStart, IInv, Results
<1>3. CASE CheckHost
  <2> DEFINE v == IsHostnameValid(hosts[i])
  <2>1. UNCHANGED <<hosts>> /\ phase = "check"
    BY <1>3 DEF CheckHost
  <2>2. CASE v = "valid"
    BY <1>3, <2>1, <2>2 DEF CheckHost, IInv
  <2>3. CASE v = "invalid"
    BY <1>3, <2>1, <2>3 DEF CheckHost, IInv, Results
  <2>4. CASE v # "valid" /\ v # "invalid"
    BY <1>3, <2>1, <2>4 DEF CheckHost, IInv, Results
  <2> QED
    BY <2>2, <2>3, <2>4
<1>4. CASE HostsDone
  BY <1>4 DEF HostsDone, IInv, Results
<1>5. CASE UNCHANGED vars
  BY <1>5 DEF vars, IInv
<1> QED
  BY <1>1, <1>2, <1>3, <1>4, <1>5 DEF Next

(***************************************************************************)
(* RejectionJustified for every bound and every host source: when          *)
(* parse_hosts raises ValueError, the host it names breaks the             *)
(* specification's hostname rule, so no valid host list is refused.        *)
(***************************************************************************)
THEOREM RejectionJustifiedInvariant == Spec => []RejectionJustified
<1>1. IInv => RejectionJustified
  <2> SUFFICES ASSUME IInv, result = "ValueError" PROVE ~SpecHostname(hosts[i])
    BY DEF RejectionJustified
  <2>1. IsHostnameValid(hosts[i]) = "invalid"
    BY DEF IInv
  <2> QED
    BY <2>1, HostnameComplete
<1> QED
  BY <1>1, InitIInv, NextIInv, PTL DEF Spec
=============================================================================
