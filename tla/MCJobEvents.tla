---------------------------- MODULE MCJobEvents ----------------------------
(* Instances of JobEvents for TLC: see the .cfg files and README.md. *)
EXTENDS JobEvents, TLC

(* The teardowns that complete() runs, one inside the other, as the code has *)
(* them: TLC compares them with Ended for every state of the service that    *)
(* End may be called in (JobSupportProofs, TeardownsAreLocal).               *)
RECURSIVE ReleaseCalled(_), Completed(_, _)

FinallyBlock(s, ch) == [Completed([s EXCEPT !.flag[ch] = FALSE], ch) EXCEPT !.entry = None]

ReleaseCalled(s) ==
    LET ch == s.entry
        t == [s EXCEPT !.count[ch] = @ - 1]
    IN  IF ch = None THEN s
        ELSE IF t.count[ch] > 0 THEN t
        ELSE IF t.flag[ch]
             THEN [t EXCEPT !.pipe = Append(@, Command("unsubscribe", ch))]
        ELSE FinallyBlock(t, ch)

Completed(s, ch) ==
    IF On(s, ch) = {} THEN s
    ELSE LET c == CHOOSE c \in On(s, ch) : TRUE
         IN  Completed(ReleaseCalled([s EXCEPT !.on[c] = None]), ch)

Services ==
    [entry : Connections \cup {None}, on : [Connections -> Connections \cup {None}],
     count : [Connections -> 0..2], flag : [Connections -> BOOLEAN], pipe : {<<>>}]

ASSUME CompletionAssumption ==
    \A s \in Services : \A ch \in Connections :
       LET t == [s EXCEPT !.flag[ch] = FALSE]
       IN  s.entry = ch \/ On(s, ch) = {} =>
             [Completed(t, ch) EXCEPT !.entry = None] = [Ended(t, ch) EXCEPT !.entry = None]
=============================================================================
