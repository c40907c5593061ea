----------------------- MODULE MCNotificationDelivery -----------------------
(* Worker ids and policies for the small instance of NotificationDelivery. *)
EXTENDS NotificationDelivery

CONSTANT Inline  \* the workers that are inline dispatchers

\* A delivery worker is service:host:pid, and every inline dispatcher is
\* "processor-inline".
DeployedID == [w \in Workers |-> IF w \in Inline THEN "processor-inline" ELSE w]

\* NOTIFICATION_MAX_ATTEMPTS of the delivery worker differs from the default
\* that the inline dispatchers use.
MixedAttempts == [w \in Workers |-> IF w \in Inline THEN 3 ELSE 1]

NoLag == [w \in Workers |-> 0]
=============================================================================
