----------------------------- MODULE MCRoundTrip -----------------------------
(***************************************************************************)
(* RoundTrip on short blobs over octets that make sets, indefinite lengths *)
(* and long forms, and on blobs around the boundaries of the header forms. *)
(***************************************************************************)
EXTENDS RoundTrip

Small == UNION { [1 .. n -> {0, 1, 49, 128, 129}] : n \in 0 .. 6 }

Element == { <<1, 0>>, <<0, 1, 9>>, <<49, 0>>, <<49, 128, 0, 0>>, <<31, 31, 0>>, <<1, 129, 0>> }

\* Sets and sequences of elements in every order, in either length form.
Sets ==
  UNION { { <<49, Len(c)>> \o c, <<49, 128>> \o c \o <<0, 0>>, <<48, 130, 0, Len(c)>> \o c } :
          c \in { e \o f : e \in Element, f \in Element }
                \cup { e \o f \o g : e \in Element, f \in {<<1, 0>>, <<49, 0>>}, g \in Element } }

Repeat(n) == [i \in 1 .. n |-> 7]

\* Tags and lengths on both sides of where their encodings grow.
Boundaries ==
  { <<i>> \o t \o <<0>> : i \in {31, 159, 223}, t \in {<<31>>, <<127>>, <<129, 0>>, <<129, 127>>} }
  \cup { <<4>> \o l \o Repeat(n) : l \in {<<130, 0, 127>>, <<130, 0, 128>>, <<129, 255>>, <<130, 1, 0>>},
                                   n \in {127, 128, 255, 256} }
  \cup { <<48, 128, 48, 128, 4>> \o l \o Repeat(n) \o <<0, 0, 0, 0>> :
           l \in {<<129, 120>>, <<125>>}, n \in {120, 125} }

MCBlobs == Small \cup Sets \cup Boundaries

=============================================================================
