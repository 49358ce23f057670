CONSTANTS
    o1 = o1
    o2 = o2
    o3 = o3
    o4 = o4
    o5 = o5
    s1 = s1
    s2 = s2
    Nothing = Nothing
    Workers = {w1, w2}
    Objects <- FiveObjects
    Subscriptions <- TwoSubscriptions
    SubscriptionOf <- Somewhere
    Credentials = TRUE
SPECIFICATION Spec
INVARIANTS OwnSubscription
