-------------------------- MODULE SavedCopies_proof --------------------------
(***************************************************************************)
(* The files that --save_temp leaves, as a function from their names to    *)
(* their texts: what saving one more of them preserves.  Both passes and   *)
(* the main loop rest on it.                                               *)
(***************************************************************************)
EXTENDS Integers, Sequences, FiniteSets, FunctionTheorems, FiniteSetTheorems,
        TLAPS

\* The copies after one more has been written; as Transformation!SaveCopy.
With(copies, name, text) ==
  [other \in DOMAIN copies \cup {name} |->
     IF other = name THEN text ELSE copies[other]]

\* The copies bear numbers, all different and all below a limit.
Numbered(copies, limit) ==
  /\ IsFiniteSet(DOMAIN copies)
  /\ \A name \in DOMAIN copies : name[1] \in Nat /\ name[1] < limit
  /\ \A name, other \in DOMAIN copies : name[1] = other[1] => name = other

Succeeded(copies) == {name \in DOMAIN copies : name[3] = "success"}

\* Their labels are the verdicts that the oracle has given.
Labelled(copies, good, bad) ==
  \A name \in DOMAIN copies :
    copies[name] \in IF name \in Succeeded(copies) THEN good ELSE bad

\* The last success is the text to go back to.
LastIsBest(copies, best) ==
  \A name \in Succeeded(copies) :
    (\A other \in Succeeded(copies) : other[1] <= name[1])
      => copies[name] = best

Copies(copies, limit, good, bad, best) ==
  /\ Numbered(copies, limit)
  /\ Labelled(copies, good, bad)
  /\ LastIsBest(copies, best)
-----------------------------------------------------------------------------
\* There are no copies before the first question.
LEMMA NoCopies ==
  ASSUME NEW limit, NEW good, NEW bad, NEW best
  PROVE  Copies(<<>>, limit, good, bad, best)
<1>1. DOMAIN <<>> = {}
  OBVIOUS
<1> QED
  BY <1>1, FS_EmptySet DEF Copies, Numbered, Labelled, LastIsBest, Succeeded

\* Numbers that are below a limit are below every later one.
LEMMA LaterLimit ==
  ASSUME NEW copies, NEW good, NEW bad, NEW best,
         NEW limit \in Nat, NEW later \in Nat, limit <= later,
         Copies(copies, limit, good, bad, best)
  PROVE  Copies(copies, later, good, bad, best)
BY DEF Copies, Numbered

\* What writing a copy of a new number does to the names and texts.
LEMMA WithFacts ==
  ASSUME NEW copies, NEW limit \in Nat, Numbered(copies, limit),
         NEW msg, NEW verdict, NEW text
  PROVE  LET name == <<limit, msg, verdict>>
             new  == With(copies, name, text) IN
           /\ DOMAIN new = DOMAIN copies \cup {name}
           /\ name \notin DOMAIN copies
           /\ name[1] = limit /\ name[3] = verdict
           /\ new[name] = text
           /\ \A other \in DOMAIN copies : new[other] = copies[other]
           /\ Numbered(new, limit + 1)
<1> DEFINE name == <<limit, msg, verdict>>
           new  == With(copies, name, text)
<1>1. name[1] = limit /\ name[3] = verdict
  OBVIOUS
<1>2. DOMAIN new = DOMAIN copies \cup {name}
  BY DEF With
<1>3. name \notin DOMAIN copies
  BY <1>1 DEF Numbered
<1>4. new[name] = text /\ \A other \in DOMAIN copies : new[other] = copies[other]
  BY <1>3 DEF With
<1> HIDE DEF name, new
<1>5. IsFiniteSet(DOMAIN new)
  BY <1>2, FS_AddElement DEF Numbered
<1>6. \A other \in DOMAIN new : other[1] \in Nat /\ other[1] < limit + 1
  BY <1>1, <1>2 DEF Numbered
<1>7. \A a, b \in DOMAIN new : a[1] = b[1] => a = b
  BY <1>1, <1>2 DEF Numbered
<1> QED BY <1>1, <1>2, <1>3, <1>4, <1>5, <1>6, <1>7 DEF Numbered, name, new

\* The copy of a text that the oracle has accepted.
LEMMA SaveSuccess ==
  ASSUME NEW copies, NEW limit \in Nat, NEW good, NEW bad, NEW best,
         Copies(copies, limit, good, bad, best), NEW msg, NEW text
  PROVE  Copies(With(copies, <<limit, msg, "success">>, text), limit + 1,
                good \cup {text}, bad, text)
<1> DEFINE name == <<limit, msg, "success">>
           new  == With(copies, name, text)
<1>1. /\ DOMAIN new = DOMAIN copies \cup {name} /\ name \notin DOMAIN copies
      /\ name[1] = limit /\ name[3] = "success" /\ new[name] = text
      /\ \A other \in DOMAIN copies : new[other] = copies[other]
      /\ Numbered(new, limit + 1)
  BY WithFacts DEF Copies
<1> HIDE DEF name, new
<1>2. Labelled(new, good \cup {text}, bad)
  BY <1>1 DEF Copies, Labelled, Succeeded
<1>3. LastIsBest(new, text)
  <2> SUFFICES ASSUME NEW last \in Succeeded(new),
                      \A other \in Succeeded(new) : other[1] <= last[1]
               PROVE  new[last] = text
    BY DEF LastIsBest
  <2>1. name \in Succeeded(new)
    BY <1>1 DEF Succeeded
  <2>2. last = name
    BY <1>1, <2>1 DEF Succeeded, Copies, Numbered
  <2> QED BY <1>1, <2>2
<1> QED BY <1>1, <1>2, <1>3 DEF Copies, name, new

\* The copy of a text that the oracle has refused.
LEMMA SaveFail ==
  ASSUME NEW copies, NEW limit \in Nat, NEW good, NEW bad, NEW best,
         Copies(copies, limit, good, bad, best), NEW msg, NEW text
  PROVE  Copies(With(copies, <<limit, msg, "fail">>, text), limit + 1,
                good, bad \cup {text}, best)
<1> DEFINE name == <<limit, msg, "fail">>
           new  == With(copies, name, text)
<1>1. /\ DOMAIN new = DOMAIN copies \cup {name} /\ name \notin DOMAIN copies
      /\ name[1] = limit /\ name[3] = "fail" /\ new[name] = text
      /\ \A other \in DOMAIN copies : new[other] = copies[other]
      /\ Numbered(new, limit + 1)
  BY WithFacts DEF Copies
<1> HIDE DEF name, new
<1>2. Succeeded(new) = Succeeded(copies)
  BY <1>1 DEF Succeeded
<1>3. Labelled(new, good, bad \cup {text})
  BY <1>1, <1>2 DEF Copies, Labelled, Succeeded
<1>4. LastIsBest(new, best)
  BY <1>1, <1>2 DEF Copies, LastIsBest, Succeeded
<1> QED BY <1>1, <1>3, <1>4 DEF Copies, name, new

\* There are as many copies as numbers.
LEMMA AsManyAsNumbers ==
  ASSUME NEW copies, NEW limit, Numbered(copies, limit)
  PROVE  Cardinality(DOMAIN copies) =
           Cardinality({name[1] : name \in DOMAIN copies})
<1> DEFINE names   == DOMAIN copies
           numbers == {name[1] : name \in names}
           f       == [name \in names |-> name[1]]
<1>1. f \in Bijection(names, numbers)
  <2>1. f \in [names -> numbers]
    OBVIOUS
  <2>2. \A a, b \in names : f[a] = f[b] => a = b
    BY DEF Numbered
  <2>3. \A k \in numbers : \E a \in names : f[a] = k
    OBVIOUS
  <2> QED BY <2>1, <2>2, <2>3, Fun_IsBij
<1>2. ExistsBijection(names, numbers)
  BY <1>1 DEF ExistsBijection
<1> QED BY <1>2, FS_Bijection DEF Numbered
=============================================================================
