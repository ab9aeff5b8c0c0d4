----------------------------- MODULE MCDispatch -----------------------------
(***************************************************************************)
(* A small instance of Dispatch: a text, a file, an image and a message    *)
(* from the phone, and room for one command and one broadcast at a time.   *)
(* The message from the phone has the words of the text, which name the    *)
(* file, so that each of the three can be taken for another.               *)
(***************************************************************************)
EXTENDS Dispatch

CONSTANTS text, file, image, phone, hello, report, picture

MCRequest == {text, file, image}
MCKind == [r \in Request |-> IF r = file THEN "file" ELSE IF r = image THEN "image" ELSE "text"]
MCContent == [m \in Message |-> IF m = file THEN report ELSE IF m = image THEN picture ELSE hello]
MCContains == {<<c, c>> : c \in {hello, report, picture}} \cup {<<hello, report>>}

=============================================================================
