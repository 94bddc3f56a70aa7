----------------------------- MODULE MessageBus -----------------------------
(***************************************************************************)
(* The message bus of bus/message_bus.c: two bounded FreeRTOS queues of    *)
(* mimi_msg_t structs, copied in and out by value.  A push waits up to     *)
(* 1000 ms for room and then gives up; a pop blocks until there is a       *)
(* message.  A queue entry carries a pointer to heap-allocated text, so    *)
(* the modules that use the bus track who must free that text.             *)
(***************************************************************************)
EXTENDS Naturals, Sequences

CONSTANT QueueLen   \* CFG_BUS_QUEUE_LEN: 4 in AtomClaw, 8 in MimiClaw

ASSUME QueueLenAssumption == QueueLen \in Nat \ {0}

VARIABLES inbound,  \* s_inbound_queue: channels -> agent
          outbound  \* s_outbound_queue: agent -> dispatcher

busVars == <<inbound, outbound>>

BusInit == inbound = <<>> /\ outbound = <<>>

(* Faulty variants, each the target of one mutation run: no limit, and the  *)
(* wrong end of the queue.                                                 *)
PushUnbounded(m) == inbound' = Append(inbound, m)
PushToFront(m) == Len(outbound) < QueueLen /\ outbound' = <<m>> \o outbound

----------------------------------------------------------------------------
(* message_bus_push_*: the struct is copied to the tail of the queue.      *)
PushInbound(m)  == Len(inbound)  < QueueLen /\ inbound'  = Append(inbound, m)
PushOutbound(m) == Len(outbound) < QueueLen /\ outbound' = Append(outbound, m)

(* ESP_ERR_NO_MEM: the queue was still full when the second had passed.    *)
PushInboundFails  == Len(inbound)  = QueueLen /\ UNCHANGED inbound
PushOutboundFails == Len(outbound) = QueueLen /\ UNCHANGED outbound

(* message_bus_pop_*, called with no time limit by their only callers.     *)
PopInbound  == inbound  # <<>> /\ inbound'  = Tail(inbound)
PopOutbound == outbound # <<>> /\ outbound' = Tail(outbound)
=============================================================================
