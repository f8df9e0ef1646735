-------------------------------- MODULE FanOut --------------------------------
(***************************************************************************)
(* A list of requests answered for one caller (ocr/serving/recognizer_http  *)
(* and mt/serving/client): ThreadPoolExecutor.map hands them out in order,  *)
(* one to each free worker thread; the server answers them in any order and *)
(* may fail some; and map returns when the last thread has its answer.  The *)
(* backends in the same process generate a list batch by batch instead.     *)
(*                                                                         *)
(* What the server says is external: an answer is known by the request it   *)
(* was made for.                                                            *)
(***************************************************************************)
EXTENDS Naturals, Sequences, SequencesExt, FiniteSetsExt

CONSTANT Workers        \* num_workers

ASSUME FanOutAssumption == Workers \in Nat \ {0}

VARIABLES
    asked,      \* the requests
    flight,     \* where each is: "waiting", "sent", "ok", "failed" or "broken"
    texts       \* by position, the request whose answer is held there; 0 for none

fanVars == <<asked, flight, texts>>

FanInit == asked = <<>> /\ flight = <<>> /\ texts = <<>>

Count(state) == Cardinality({i \in DOMAIN flight : flight[i] = state})
AllAnswered == \A i \in DOMAIN flight : flight[i] \notin {"waiting", "sent"}

Ask(requests) ==
    /\ asked' = requests
    /\ flight' = [i \in DOMAIN requests |-> "waiting"]
    /\ texts' = [i \in DOMAIN requests |-> 0]

\* Answers put in a list as they arrive.
PlaceByArrival(i) == Count("ok") + Count("failed") + Count("broken") + 1

\* Each thread writes its answer at the position of its request.
Place(i) == i

Take ==
    /\ Count("sent") < Workers
    /\ \E i \in DOMAIN flight :
        /\ flight[i] = "waiting" /\ \A j \in 1..(i - 1) : flight[j] # "waiting"
        /\ flight' = [flight EXCEPT ![i] = "sent"]
    /\ UNCHANGED <<asked, texts>>

\* An answer: "ok" with what the server said, or one of the ways it may be none.
Reply(i, outcomes) ==
    /\ flight[i] = "sent" /\ UNCHANGED asked
    /\ \E outcome \in outcomes :
        /\ flight' = [flight EXCEPT ![i] = outcome]
        /\ texts' = IF outcome = "ok" THEN [texts EXCEPT ![Place(i)] = i] ELSE texts

\* The next `size` requests in one call of the engine, which has one outcome for all.
Generate(size, outcomes) ==
    LET done == Count("ok") + Count("failed")
        now == {i \in DOMAIN asked : done < i /\ i <= done + size}
    IN  /\ now # {} /\ UNCHANGED asked
        /\ \E outcome \in outcomes :
            /\ flight' = [i \in DOMAIN flight |-> IF i \in now THEN outcome ELSE flight[i]]
            /\ texts' = [i \in DOMAIN texts |-> IF i \in now /\ outcome = "ok" THEN i ELSE texts[i]]
===============================================================================
