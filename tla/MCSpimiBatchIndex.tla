-------------------------- MODULE MCSpimiBatchIndex --------------------------
(***************************************************************************)
(* SpimiBatchIndex on small inputs.  The coordinates are those of the      *)
(* region the program is made for: latitudes around -6, longitudes around  *)
(* 106.                                                                    *)
(***************************************************************************)
EXTENDS SpimiBatchIndex, TLC

CONSTANTS mosque, copy, annex, unnamed, kiosk, stall, park   \* the objects
CONSTANTS istiqlal, monas, none                        \* the names

MCObjects == {mosque, copy, annex, unnamed, kiosk, stall, park}
MCNames == {istiqlal, monas}

MCNameOf == (mosque :> istiqlal) @@ (copy :> istiqlal) @@ (annex :> istiqlal)
         @@ (unnamed :> none) @@ (kiosk :> monas) @@ (stall :> monas) @@ (park :> monas)

\* The annex stands in the mosque's box, the copy is the mosque mapped twice,
\* the kiosk stands in the park's box, the stall beside it.
MCLatsOf == (mosque :> <<-7, -5>>) @@ (copy :> <<-7, -5>>) @@ (annex :> <<-6, -5>>)
         @@ (unnamed :> <<-6>>) @@ (kiosk :> <<-3>>) @@ (stall :> <<-3>>) @@ (park :> <<-4, -3>>)
MCLonsOf == (mosque :> <<106, 107>>) @@ (copy :> <<106, 107>>) @@ (annex :> <<106, 107>>)
         @@ (unnamed :> <<106>>) @@ (kiosk :> <<106>>) @@ (stall :> <<108>>) @@ (park :> <<106, 107>>)

Lengths(n, a) == [f \in Fields |-> IF f = "name" THEN n ELSE a]
MCWordsOf == (mosque :> Lengths(1, 2)) @@ (copy :> Lengths(1, 0)) @@ (annex :> Lengths(2, 0))
          @@ (unnamed :> Lengths(0, 0)) @@ (kiosk :> Lengths(1, 1)) @@ (stall :> Lengths(1, 0)) @@ (park :> Lengths(1, 2))

Nothing == <<>>

\* Two way batches, the first of two ways; the annex is in the other.
TwoBatches == <<unnamed, mosque, annex>>

\* One batch on each side; the park, the kiosk and the stall have the same name.
OneWay == <<park>>
TwoNodes == <<kiosk, stall>>

\* One way batch of three name words and two address words.
OneBatch == <<park, annex>>

\* A node that is no document.
NoDocument == <<unnamed>>

\* The same place mapped twice, for two batches of one way.
TwoPlaces == <<mosque, copy>>

\* A place, then the one around it, for one batch.
Growing == <<annex, mosque>>
==============================================================================
