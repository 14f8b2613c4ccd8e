--------------------------- MODULE MCNotification ---------------------------
EXTENDS Notification

MCTask == {"whatsapp", "mail", "firstDay", "everyDay"}
MCObservers == <<"whatsapp", "mail">>
MCContacts == [whatsapp |-> {"anna"}, mail |-> {"anna"}]
MCPeriod == [w \in MCTask |-> IF w = "everyDay" THEN 2 ELSE 0]
=============================================================================
