-------------------------- MODULE MCGamepadInput --------------------------
(* A small instance of GamepadInput for TLC.                                 *)
EXTENDS GamepadInput

MCButtons == {"fire"}

\* Nothing held, a button, and a stick pushed left of a pad pressed right.
MCPads == {[dpad |-> {}, x |-> 0, y |-> 0, buttons |-> {}],
           [dpad |-> {}, x |-> 0, y |-> 1, buttons |-> {"fire"}],
           [dpad |-> {"right"}, x |-> -1, y |-> 0, buttons |-> {}]}

=============================================================================
